---- MODULE Spec2Model ----
(***************************************************************************)
(* Admission control and request dispatch of the MCP server.               *)
(*                                                                         *)
(*   utils/security.py  SecurityManager: allow-list, sliding-window rate   *)
(*                      limiter (rate_limits: tool name -> deque of        *)
(*                      time.time() stamps).                               *)
(*                                                                         *)
(* The server is an asyncio program and starts no thread: a synchronous    *)
(* function such as check_rate_limit has no await in it and so runs as one *)
(* step of the event loop.  Several callers may be waiting to run it; the  *)
(* order in which the loop resumes them is arbitrary.                      *)
(*                                                                         *)
(*   server.py          MCPServer.handle_call_tool (the dispatcher) and    *)
(*                      _route_tool_call; main (the stdio loop).           *)
(*   utils/metrics.py   MetricsCollector.record_request / record_success / *)
(*                      record_error.                                      *)
(*                                                                         *)
(* handle_call_tool is modelled as its signature declares it: called with  *)
(* one request that carries .name and .arguments.  It runs to the first    *)
(* await that suspends (inside the tool handler) as one step, and from the *)
(* handler's completion to its return as another.                          *)
(*                                                                         *)
(* main calls server.handle_call_tool(tool_name, arguments): two          *)
(* positional arguments for a method that declares one.  Python raises     *)
(* TypeError at the call, before the body of handle_call_tool runs, and    *)
(* the except branch of main answers with code -32603.  The stdio loop is  *)
(* modelled as the code runs: it never reaches the dispatcher, so it has   *)
(* a specification of its own (SpecConn).                                  *)
(*                                                                         *)
(* The dispatcher has two specifications over the same actions: Spec      *)
(* draws the names whose admission and routing differ, SpecExec the names  *)
(* whose tool bodies end in different ways (a result, an exception, a      *)
(* timeout, a result json.dumps cannot serialise).  SpecAllow builds the   *)
(* SecurityManager with any configured allow-list and queries it.          *)
(*                                                                         *)
(* The methods of MetricsCollector and SecurityManager.is_command_safe are *)
(* also called directly: SpecMetrics calls the collector's methods on a    *)
(* fresh collector, SpecBuf calls record_request and record_error on a     *)
(* collector whose buffers are at their capacity, and SpecSafe gives       *)
(* is_command_safe any command text built from a few fragments.            *)
(* SpecLat calls record_success on a collector whose latency history is   *)
(* one short of the length at which it is cut, and SpecLoad saves, damages *)
(* and loads the metrics file.                                             *)
(*                                                                         *)
(* SpecShell gives the system_command calls of the dispatcher a command    *)
(* text, and SpecConfig starts the server under each setting of            *)
(* MCP_RATE_LIMIT.                                                         *)
(*                                                                         *)
(* Time is the value time.time() returns, in whole seconds, and does not   *)
(* go backwards.                                                           *)
(***************************************************************************)
EXTENDS Integers, Sequences, FiniteSets, TLC

\* ------------------------------------------------------------------ bounds
\* SecurityManager.max_requests_per_minute is a field of the dataclass (60 by
\* default); the model runs it at a small value.
max_requests_per_minute == 2
\* The clock takes the values 0..EarlyMax and WindowSecs-1..WindowSecs+1.
EarlyMax == 2
\* Callers that may be waiting to run check_rate_limit at the same moment.
NumCallers == 2
\* check_rate_limit calls in one behaviour of SpecRL.
MaxChecks == 4

\* Coroutines of handle_call_tool that may be in flight at the same moment.
NumSlots == 2
\* handle_call_tool calls in one behaviour of Spec.
MaxCalls == 3

\* Lines read from stdin in one behaviour of SpecConn.
MaxLines == 3

\* Direct MetricsCollector method calls in one behaviour of SpecMetrics.
MaxRecords == 5

\* Fragments a command text is built from in one behaviour of SpecSafe.
MaxParts == 3

\* record_success calls made on the long-sampled collector in one behaviour
\* of SpecLat.
MaxLatCalls == 4

\* record_request and record_error calls made on the long-running collector
\* in one behaviour of SpecBuf.
MaxBufCalls == 3

\* -------------------------------------------------------- program constants
\* minute_ago = current_time - 60
WindowSecs == 60
\* deque(maxlen=10000), deque(maxlen=1000), response_times[tool][-1000:]
RequestsMaxLen == 10000
ErrorsMaxLen == 1000
ResponseTimesKeep == 1000
\* "code": -32603 and "code": -32601 in main
InternalError == -32603
MethodNotFound == -32601
\* timedelta(hours=hours), in seconds; get_metrics(hours: int = 24);
\* get_recent_errors(50) in save_metrics
SecondsPerHour == 3600
DefaultHours == 24
SavedErrors == 50

\* ----------------------------------------------------------------- values
FILE_READ == "file_read"
GIT_STATUS == "git_status"
GIT_PULL == "git_pull"
SYSTEM_COMMAND == "system_command"
DB_QUERY == "db_query"
NONEXISTENT_TOOL == "nonexistent_tool"
\* A name with the git_ prefix that is on no list and has no handler branch.
GIT_FROBNICATE == "git_frobnicate"
\* A name FileTools advertises and has a branch for; the default allow-list
\* does not hold it.
FILE_INFO == "file_info"

\* The tool names the model draws requests from.
ToolNames ==
  {FILE_READ, GIT_STATUS, GIT_PULL, SYSTEM_COMMAND, DB_QUERY, NONEXISTENT_TOOL,
   GIT_FROBNICATE, FILE_INFO}

\* The names the calls of Spec carry (their admission and routing differ),
\* and the names the calls of SpecExec carry (their bodies end in different
\* ways).
AdmissionTools ==
  {FILE_READ, GIT_STATUS, GIT_PULL, NONEXISTENT_TOOL, GIT_FROBNICATE, FILE_INFO}

ExecTools == {SYSTEM_COMMAND, DB_QUERY}

\* SecurityManager.allowed_tools after __post_init__, cut to the names of
\* ToolNames.
allowed_tools == {FILE_READ, GIT_STATUS, GIT_PULL, SYSTEM_COMMAND, DB_QUERY}

\* tool_name.startswith(...): the prefix _route_tool_call finds in a name.
PrefixOf(tool_name) ==
  CASE tool_name = FILE_READ -> "file_"
    [] tool_name = FILE_INFO -> "file_"
    [] tool_name = GIT_STATUS -> "git_"
    [] tool_name = GIT_PULL -> "git_"
    [] tool_name = GIT_FROBNICATE -> "git_"
    [] tool_name = SYSTEM_COMMAND -> "system_"
    [] tool_name = DB_QUERY -> "db_"
    [] OTHER -> "none"

RoutedPrefixes == {"file_", "system_", "web_", "code_", "git_", "db_", "ai_"}

\* The names the handle_tool_call methods have a branch for, cut to ToolNames
\* (FileTools: file_read ... file_info; GitTools: git_status, git_commit,
\* git_push; SystemTools: system_command ...; DatabaseTools: db_query,
\* db_execute).
ImplementedTools == {FILE_READ, FILE_INFO, GIT_STATUS, SYSTEM_COMMAND, DB_QUERY}

\* MCPServer.get_tools: the names of the Tool objects the get_tools methods
\* of the tool classes return, cut to ToolNames (FileTools: file_read ...
\* file_search_content, file_info; GitTools: git_status, git_commit,
\* git_push and no git_pull; SystemTools; DatabaseTools).
get_tools == {FILE_READ, FILE_INFO, GIT_STATUS, SYSTEM_COMMAND, DB_QUERY}

\* How a tool body can end once it runs.
\*   file_read raises on a missing argument, a path outside the base
\*     directory or a file too large;
\*   git_status catches every exception and returns;
\*   system_command raises KeyError on a missing "command"; when
\*     asyncio.wait_for times out (after arguments["timeout"] seconds, 30
\*     if the caller gives none) it catches TimeoutError and returns the
\*     dict {"success": False, "error": "Command timed out ..."};
\*   db_query raises KeyError on a missing "query"; its result holds the
\*     rows as sqlite3 gives them, and a row with a BLOB (bytes) is a value
\*     json.dumps cannot serialise.
Outcomes == {"returns", "raises", "timeout", "unserializable"}

HandlerOutcomes(tool_name) ==
  CASE tool_name = FILE_READ -> {"returns", "raises"}
    [] tool_name = SYSTEM_COMMAND -> {"returns", "raises", "timeout"}
    [] tool_name = DB_QUERY -> {"returns", "raises", "unserializable"}
    [] OTHER -> {"returns"}

\* The keys check_rate_limit is called with directly (it takes any string).
RLKeys == {FILE_READ, GIT_STATUS}

Instants == (0..EarlyMax) \cup ((WindowSecs - 1)..(WindowSecs + 1))

\* The clock values of the dispatcher's behaviours: the start, one second
\* later, and the first instant at which a stamp of time 0 has expired.
DispatchInstants == {0, 1, WindowSecs + 1}

Callers == 1..NumCallers

Slots == 1..NumSlots

CALL_TOOL == "call_tool"

NoKey == "none"

VARIABLES
  configured,   \* the allowed_tools argument SecurityManager was built with
  sm_allowed_tools, \* SecurityManager.allowed_tools
  al_last,      \* history: the is_tool_allowed call made last
  cs_command,   \* the command text: the one is_command_safe is given,
                \* and arguments["command"] of the system_command calls
  cs_last,      \* history: the is_command_safe call made last
  rate_limit_per_minute, \* Config.security.rate_limit_per_minute
  now,          \* time.time()
  rate_limits,  \* SecurityManager.rate_limits: a defaultdict, key -> deque
  admitted,     \* history: per key, the stamps of every admitted check
  refused,      \* history: the key and instant of the check refused last
  rl_pc,        \* per caller: "idle" | "pending" (about to run the check)
  rl_key,       \* per caller: the argument of its pending check
  last,         \* history: the check_rate_limit call that ran last
  nchecks,      \* check_rate_limit calls made so far
  requests,     \* MetricsCollector.requests
  errors,       \* MetricsCollector.errors
  tool_usage,   \* MetricsCollector.tool_usage: a defaultdict(int)
  response_times, \* MetricsCollector.response_times: a defaultdict(list)
  start_time,   \* MetricsCollector.start_time
  metrics_file, \* the file save_metrics writes and load_metrics reads
  req_log,      \* history: every event record_request was called with, directly
  err_log,      \* history: every event record_error was called with, directly
  rt_log,       \* history: per tool, every sample record_success was given, directly
  m_last,       \* history: the MetricsCollector method called last, directly
  nrec,         \* direct MetricsCollector method calls made so far
  hc_pc,        \* per coroutine of handle_call_tool: "idle" | "executing"
  hc_tool,      \* per coroutine: tool_name
  hc_start,     \* per coroutine: start_time
  hc_trace,     \* history: per coroutine in flight, the checks and calls it made
  done,         \* history: the handle_call_tool call that returned last
                \* (outcome: how its tool body ended, "none" if none ran;
                \* child: the state of its child process when it returned)
  ncalls,       \* handle_call_tool calls made so far
  conn_pc,      \* main: "reading" | "handling" | "exited" | "crashed"
  line,         \* main: line, the value input() returned
  message,      \* main: message, the local variable (unbound at first)
  inbox,        \* history: the non-empty lines read, in order
  output,       \* the responses printed to stdout, in order
  nlines        \* lines read so far

secvars ==
  <<configured, sm_allowed_tools, al_last, cs_command, cs_last,
    rate_limit_per_minute>>

rlvars == <<rate_limits, admitted, refused, rl_pc, rl_key, last, nchecks>>

loghist == <<req_log, err_log, rt_log>>
mauxvars == <<start_time, metrics_file, m_last, nrec, loghist>>

metricvars == <<requests, errors, tool_usage, response_times, mauxvars>>

hcvars == <<hc_pc, hc_tool, hc_start, hc_trace, done, ncalls>>

rlhist == <<admitted, refused, rl_pc, rl_key, last, nchecks>>

connvars == <<conn_pc, line, message, inbox, output, nlines>>

vars == <<secvars, now, rlvars, metricvars, hcvars, connvars>>

\* ---------------------------------------------------------------- Config
\* SecurityConfig.rate_limit_per_minute: int = 60, the same number as the
\* default of SecurityManager.max_requests_per_minute; the model runs both
\* at the small value.
DefaultRateLimit == max_requests_per_minute

\* SecurityConfig.allowed_tools: the default list, name for name the default
\* set of SecurityManager.__post_init__; no environment variable changes it.
security_allowed_tools == {FILE_READ, GIT_STATUS, GIT_PULL, SYSTEM_COMMAND, DB_QUERY}

\* Config._load_from_env: int(os.getenv("MCP_RATE_LIMIT")) when the variable
\* is set, the default otherwise (setup_environment sets it to the default
\* when it is unset).  _validate raises on a value <= 0: the server does not
\* start.
UnsetEnv == 0

load_from_env(MCP_RATE_LIMIT) ==
  IF MCP_RATE_LIMIT = UnsetEnv THEN DefaultRateLimit ELSE MCP_RATE_LIMIT

\* The values of MCP_RATE_LIMIT tried: unset, and the positive numbers up to
\* one above the default.
RateLimitSettings == {UnsetEnv} \cup (1..(DefaultRateLimit + 1))

\* ------------------------------------------------------- SecurityManager
\* __post_init__: if not self.allowed_tools: self.allowed_tools = {...}
post_init(cfg) == IF cfg = {} THEN allowed_tools ELSE cfg

\* is_tool_allowed: tool_name in self.allowed_tools
is_tool_allowedDefaults(tool_name) == tool_name \in allowed_tools

is_tool_allowed(tool_name) == tool_name \in sm_allowed_tools

\* No is_command_safe call was made yet.
NoSafeCheck == [called |-> FALSE, command |-> <<>>, ret |-> TRUE]

NoQuery == [name |-> NoKey, result |-> FALSE]

\* The server's SecurityManager: MCPServerState builds it with no argument.
InitSecurity ==
  /\ configured = {}
  /\ sm_allowed_tools = post_init(configured)
  /\ al_last = NoQuery
  /\ cs_command = <<>>
  /\ cs_last = NoSafeCheck
  /\ rate_limit_per_minute = load_from_env(UnsetEnv)

\* SecurityManager(allowed_tools=cfg) for any configuration.
InitConfigured ==
  /\ configured \in SUBSET ToolNames
  /\ sm_allowed_tools = post_init(configured)
  /\ al_last = NoQuery
  /\ cs_command = <<>>
  /\ cs_last = NoSafeCheck
  /\ rate_limit_per_minute = load_from_env(UnsetEnv)

\* The process is started again with tool_name added to or removed from the
\* configuration: a new SecurityManager is built.
Configure(tool_name) ==
  LET cfg == IF tool_name \in configured
             THEN configured \ {tool_name} ELSE configured \cup {tool_name}
  IN /\ configured' = cfg
     /\ sm_allowed_tools' = post_init(cfg)
     /\ al_last' = NoQuery
     /\ UNCHANGED <<cs_command, cs_last, rate_limit_per_minute, now, rlvars,
                    metricvars, hcvars, connvars>>

\* is_tool_allowed(tool_name) is called.
Query(tool_name) ==
  /\ al_last' = [name |-> tool_name, result |-> is_tool_allowed(tool_name)]
  /\ UNCHANGED <<configured, sm_allowed_tools, cs_command, cs_last,
                 rate_limit_per_minute, now, rlvars,
                 metricvars, hcvars, connvars>>

\* ---------------------------------------------------- is_command_safe
\* A text is the sequence of its characters.  Commands are built from at
\* most MaxParts of these fragments: harmless words, a blocked word in lower
\* and mixed case, whitespace, and the pieces of a redirection and of dd.
Fragments ==
  {<<"l", "s">>,
   <<"s", "u">>,
   <<"S", "u", "d", "o">>,
   <<" ">>,
   <<"\t">>,
   <<">">>,
   <<"/", "d", "e", "v", "/">>,
   <<"d", "d">>,
   <<"i", "f", "=">>,
   <<"r", "e">>,
   <<"l", "t">>}

RECURSIVE Built(_)
Built(n) ==
  IF n = 0 THEN {<<>>}
  ELSE Built(n - 1) \cup {c \o f : c \in Built(n - 1), f \in Fragments}

Commands == Built(MaxParts)

UpperCase == <<"A", "B", "C", "D", "E", "F", "G", "H", "I", "J", "K", "L", "M",
               "N", "O", "P", "Q", "R", "S", "T", "U", "V", "W", "X", "Y", "Z">>
LowerCase == <<"a", "b", "c", "d", "e", "f", "g", "h", "i", "j", "k", "l", "m",
               "n", "o", "p", "q", "r", "s", "t", "u", "v", "w", "x", "y", "z">>

\* str.lower()
lower(text) ==
  [i \in 1..Len(text) |->
     IF \E k \in 1..Len(UpperCase) : UpperCase[k] = text[i]
     THEN LowerCase[CHOOSE k \in 1..Len(UpperCase) : UpperCase[k] = text[i]]
     ELSE text[i]]

\* What str.strip() removes and the regular expression \s matches.
Whitespace == {" ", "\t", "\n", "\r", "\f"}

\* str.strip()
strip(text) ==
  LET inked == {i \in 1..Len(text) : text[i] \notin Whitespace}
  IN IF inked = {} THEN <<>>
     ELSE SubSeq(text, CHOOSE i \in inked : \A k \in inked : i <= k,
                       CHOOSE i \in inked : \A k \in inked : i >= k)

\* blocked in command_lower (str.__contains__)
Contains(blocked, text) ==
  \E i \in 0..(Len(text) - Len(blocked)) :
     \A k \in 1..Len(blocked) : text[i + k] = blocked[k]

\* __post_init__: the default blocked_commands
blocked_commands ==
  {<<"r", "m", " ", "-", "r", "f", " ", "/">>,
   <<"f", "o", "r", "m", "a", "t", " ", "c", ":">>,
   <<"d", "e", "l", " ", "/", "s", " ", "/", "q", " ", "c", ":", "\\">>,
   <<"s", "u", "d", "o">>,
   <<"s", "u">>,
   <<"c", "h", "m", "o", "d", " ", "7", "7", "7">>,
   <<"c", "h", "o", "w", "n", " ", "r", "o", "o", "t">>,
   <<"m", "k", "f", "s">>,
   <<"d", "d", " ", "i", "f", "=">>,
   <<">", " ", "/", "d", "e", "v", "/">>,
   <<">", " ", "/", "p", "r", "o", "c", "/">>,
   <<"r", "m", " ", "-", "r", "f", " ", "/", "e", "t", "c">>,
   <<"r", "m", " ", "-", "r", "f", " ", "/", "v", "a", "r">>,
   <<"r", "m", " ", "-", "r", "f", " ", "/", "u", "s", "r">>,
   <<"d", "e", "l", " ", "/", "s", " ", "/", "q", " ", "c", ":", "\\", "w", "i", "n", "d", "o", "w", "s">>,
   <<"d", "e", "l", " ", "/", "s", " ", "/", "q", " ", "c", ":", "\\", "s", "y", "s", "t", "e", "m">>}

\* The regular expressions of dangerous_patterns: a sequence of literal
\* characters and of the items \s+ and \s*.
dangerous_patterns ==
  {<<"r", "m", "\\s+", "-", "r", "f", "\\s+", "/">>,
   <<"d", "e", "l", "\\s+", "/", "s", "\\s+", "/", "q", "\\s+", "c", ":", "\\">>,
   <<"f", "o", "r", "m", "a", "t", "\\s+", "c", ":">>,
   <<"s", "u", "d", "o", "\\s+">>,
   <<"s", "u", "\\s+">>,
   <<"c", "h", "m", "o", "d", "\\s+", "7", "7", "7">>,
   <<"c", "h", "o", "w", "n", "\\s+", "r", "o", "o", "t">>,
   <<">", "\\s*", "/", "d", "e", "v", "/">>,
   <<">", "\\s*", "/", "p", "r", "o", "c", "/">>,
   <<"m", "k", "f", "s", "\\s+">>,
   <<"d", "d", "\\s+", "i", "f", "=">>}

\* The pattern matches from its item j on, at position i of the text.
RECURSIVE MatchAt(_, _, _, _)
MatchAt(pattern, j, text, i) ==
  IF j > Len(pattern) THEN TRUE
  ELSE IF pattern[j] \in {"\\s+", "\\s*"}
  THEN \E n \in (IF pattern[j] = "\\s+" THEN 1 ELSE 0)..(Len(text) - i + 1) :
          /\ \A m \in i..(i + n - 1) : text[m] \in Whitespace
          /\ MatchAt(pattern, j + 1, text, i + n)
  ELSE /\ i <= Len(text)
       /\ text[i] = pattern[j]
       /\ MatchAt(pattern, j + 1, text, i + 1)

\* re.search(pattern, text)
re_search(pattern, text) == \E i \in 1..(Len(text) + 1) : MatchAt(pattern, 1, text, i)

\* command.lower().strip()
command_lowerAsTyped(command) == strip(command)

command_lower(command) == strip(lower(command))

\* is_command_safe(command)
is_command_safe(command) ==
  IF \E blocked \in blocked_commands : Contains(lower(blocked), command_lower(command))
  THEN FALSE
  ELSE IF \E pattern \in dangerous_patterns : re_search(pattern, command_lower(command))
  THEN FALSE
  ELSE TRUE

\* is_command_safe(cs_command) is called; it reads blocked_commands and
\* assigns nothing.
CheckCommand ==
  /\ cs_last' = [called |-> TRUE, command |-> cs_command,
                 ret |-> is_command_safe(cs_command)]
  /\ UNCHANGED <<configured, sm_allowed_tools, al_last, cs_command,
                 rate_limit_per_minute, now, rlvars,
                 metricvars, hcvars, connvars>>

\* The server's SecurityManager and any command text.
InitCommand ==
  /\ configured = {}
  /\ sm_allowed_tools = post_init(configured)
  /\ al_last = NoQuery
  /\ cs_command \in Commands
  /\ cs_last = NoSafeCheck
  /\ rate_limit_per_minute = load_from_env(UnsetEnv)

\* self.rate_limits[tool_name] read: a defaultdict gives an empty deque for
\* a key it has not seen.
Window(rl, tool_name) ==
  IF tool_name \in DOMAIN rl THEN rl[tool_name] ELSE <<>>

\* self.rate_limits[tool_name] written (popleft / append act on that deque
\* alone; the first access creates the key).
SetWindowAll(rl, tool_name, w) ==
  [k \in DOMAIN rl \cup {tool_name} |-> w]

SetWindow(rl, tool_name, w) ==
  [k \in DOMAIN rl \cup {tool_name} |-> IF k = tool_name THEN w ELSE rl[k]]

\* while deque and deque[0] < minute_ago: deque.popleft()
RECURSIVE EvictInclusive(_, _)
EvictInclusive(w, minute_ago) ==
  IF w # <<>> /\ Head(w) <= minute_ago
  THEN EvictInclusive(Tail(w), minute_ago)
  ELSE w

EvictNothing(w, minute_ago) == w

EvictOnce(w, minute_ago) ==
  IF w # <<>> /\ Head(w) < minute_ago THEN Tail(w) ELSE w

RECURSIVE Evict(_, _)
Evict(w, minute_ago) ==
  IF w # <<>> /\ Head(w) < minute_ago
  THEN Evict(Tail(w), minute_ago)
  ELSE w

\* if len(deque) >= self.max_requests_per_minute: return False
LimitExceededOffByOne(w) == Len(w) > max_requests_per_minute

LimitExceeded(w) == Len(w) >= max_requests_per_minute

\* check_rate_limit, the value returned at time current_time
CheckResultNoEviction(rl, tool_name, current_time) ==
  ~LimitExceeded(Window(rl, tool_name))

CheckResult(rl, tool_name, current_time) ==
  ~LimitExceeded(Evict(Window(rl, tool_name), current_time - WindowSecs))

\* check_rate_limit, the deque of tool_name when it returns
AppendAlways(w, current_time) == Append(w, current_time)

AppendIfAdmitted(w, current_time) ==
  IF LimitExceeded(w) THEN w ELSE Append(w, current_time)

\* check_rate_limit, self.rate_limits when it returns
CheckEffectNoAppend(rl, tool_name, current_time) ==
  SetWindow(rl, tool_name, Evict(Window(rl, tool_name), current_time - WindowSecs))

CheckEffect(rl, tool_name, current_time) ==
  SetWindow(rl, tool_name,
            AppendIfAdmitted(Evict(Window(rl, tool_name), current_time - WindowSecs),
                             current_time))

\* ------------------------------------------------------------------ clock
Advance(instants) ==
  /\ \E t \in instants : t > now /\ now' = t
  /\ UNCHANGED <<secvars, rlvars, metricvars, hcvars, connvars>>

Tick == Advance(Instants)

TickDispatch == Advance(DispatchInstants)

\* ------------------------------------------- callers of check_rate_limit
\* A caller reaches the call of check_rate_limit(tool_name).
RLInvoke(c, tool_name) ==
  /\ rl_pc[c] = "idle"
  /\ nchecks < MaxChecks
  /\ rl_pc' = [rl_pc EXCEPT ![c] = "pending"]
  /\ rl_key' = [rl_key EXCEPT ![c] = tool_name]
  /\ nchecks' = nchecks + 1
  /\ UNCHANGED <<secvars, now, rate_limits, admitted, refused, last, metricvars, hcvars, connvars>>

\* The callers other than c that are waiting to check the key c checks.
Contenders(c) ==
  {d \in Callers \ {c} : rl_pc[d] = "pending" /\ rl_key[d] = rl_key[c]}

\* check_rate_limit(tool_name) runs, from its first line to its return.
check_rate_limit(c) ==
  LET tool_name == rl_key[c]
      ok == CheckResult(rate_limits, tool_name, now)
  IN /\ rl_pc[c] = "pending"
     /\ rate_limits' = CheckEffect(rate_limits, tool_name, now)
     /\ last' = [caller |-> c, key |-> tool_name, result |-> ok, at |-> now,
                 before |-> Window(rate_limits, tool_name),
                 contenders |-> Contenders(c)]
     /\ admitted' = IF ok
                    THEN [admitted EXCEPT ![tool_name] = Append(@, now)]
                    ELSE admitted
     /\ refused' = IF ok THEN refused ELSE [key |-> tool_name, at |-> now]
     /\ rl_pc' = [rl_pc EXCEPT ![c] = "idle"]
     /\ rl_key' = [rl_key EXCEPT ![c] = NoKey]
     /\ UNCHANGED <<secvars, now, nchecks, metricvars, hcvars, connvars>>

NoCheck ==
  [caller |-> 0, key |-> NoKey, result |-> FALSE, at |-> 0, before |-> <<>>,
   contenders |-> {}]

InitRL ==
  /\ now = 0
  /\ rate_limits = << >>
  /\ admitted = [k \in RLKeys |-> <<>>]
  /\ refused = [key |-> NoKey, at |-> 0]
  /\ rl_pc = [c \in Callers |-> "idle"]
  /\ rl_key = [c \in Callers |-> NoKey]
  /\ last = NoCheck
  /\ nchecks = 0


\* ------------------------------------------------------ MetricsCollector
\* deque(maxlen=n).append
DequeAppendDropNewest(q, x, maxlen) ==
  IF Len(q) >= maxlen THEN q ELSE Append(q, x)

DequeAppend(q, x, maxlen) ==
  IF Len(q) >= maxlen THEN Append(Tail(q), x) ELSE Append(q, x)

\* record_request: self.requests.append({...})
RecordRequest(reqs, request_type, tool_name, t) ==
  DequeAppend(reqs, [type |-> request_type, tool |-> tool_name, timestamp |-> t],
              RequestsMaxLen)

\* tool_name: Optional[str] = None, and what "if tool_name:" lets through
None == "None"
Truthy(tool_name) == tool_name \notin {None, ""}

\* record_request: if tool_name: self.tool_usage[tool_name] += 1
CountUsageAnyName(usage, tool_name) ==
  [k \in DOMAIN usage \cup {tool_name} |->
     IF k = tool_name
     THEN (IF k \in DOMAIN usage THEN usage[k] ELSE 0) + 1
     ELSE usage[k]]

CountUsage(usage, tool_name) ==
  IF Truthy(tool_name)
  THEN [k \in DOMAIN usage \cup {tool_name} |->
          IF k = tool_name
          THEN (IF k \in DOMAIN usage THEN usage[k] ELSE 0) + 1
          ELSE usage[k]]
  ELSE usage

\* record_success: response_times[tool_name].append(execution_time), trimmed
RecordSuccessKeepOldest(times, tool_name, execution_time) ==
  LET old == IF tool_name \in DOMAIN times THEN times[tool_name] ELSE <<>>
      new == Append(old, execution_time)
      kept == IF Len(new) > ResponseTimesKeep
              THEN SubSeq(new, 1, ResponseTimesKeep)
              ELSE new
  IN IF Truthy(tool_name)
     THEN [k \in DOMAIN times \cup {tool_name} |->
             IF k = tool_name THEN kept ELSE times[k]]
     ELSE times

RecordSuccess(times, tool_name, execution_time) ==
  LET old == IF tool_name \in DOMAIN times THEN times[tool_name] ELSE <<>>
      new == Append(old, execution_time)
      kept == IF Len(new) > ResponseTimesKeep
              THEN SubSeq(new, Len(new) - ResponseTimesKeep + 1, Len(new))
              ELSE new
  IN IF Truthy(tool_name)
     THEN [k \in DOMAIN times \cup {tool_name} |->
             IF k = tool_name THEN kept ELSE times[k]]
     ELSE times

\* record_error: self.errors.append({...})
RecordError(errs, request_type, tool_name, error_message, execution_time, t) ==
  DequeAppend(errs,
              [type |-> request_type, tool |-> tool_name, error |-> error_message,
               execution_time |-> execution_time, timestamp |-> t],
              ErrorsMaxLen)

\* The tools the direct calls name, the tool record_success is called for
\* (the other one never has a latency sample), the tool record_error is
\* called for on the long-running collector, the execution times
\* record_success is given, the hours get_metrics is asked for, and the
\* clock values of SpecMetrics: the start and the first instant at which an
\* event of time 0 is outside a window of one hour.
MetricTools == {FILE_READ, GIT_STATUS}
SampledTools == {FILE_READ}
FailedTools == {GIT_STATUS}
SampleTimes == {1, 3}
Hours == {1, DefaultHours}
MetricInstants == {0, SecondsPerHour + 1}

TickMetrics == Advance(MetricInstants)

\* round(x, 2) of the quotient a / b (b > 0), in hundredths: the integer
\* nearest to 100 * a / b, a tie going to the even one as Python's round does.
RoundedHundredths(a, b) ==
  LET q == (100 * a) \div b
      r == (100 * a) % b
  IN IF 2 * r < b THEN q
     ELSE IF 2 * r > b THEN q + 1
     ELSE IF q % 2 = 0 THEN q ELSE q + 1

\* get_metrics: success_rate, in hundredths of a percent
\* ((total_requests - total_errors) / total_requests * 100, rounded to two
\* places, if total_requests > 0 else 0)
success_rateOfErrors(total_requests, total_errors) ==
  IF total_requests > 0
  THEN RoundedHundredths(total_errors * 100, total_requests)
  ELSE 0

success_rate(total_requests, total_errors) ==
  IF total_requests > 0
  THEN RoundedHundredths((total_requests - total_errors) * 100, total_requests)
  ELSE 0

\* get_metrics: the entries of a buffer with timestamp > cutoff_time
Recent(buffer, cutoff_time) ==
  Cardinality({i \in 1..Len(buffer) : buffer[i].timestamp > cutoff_time})

\* get_metrics(hours), the counts and the rate of the dict it returns
RECURSIVE SeqSum(_)
SeqSum(q) == IF q = <<>> THEN 0 ELSE Head(q) + SeqSum(Tail(q))

\* get_metrics: tool_usage, counted over recent_requests (an event without
\* a tool name is skipped)
WindowToolUsageAll(reqs, cutoff_time) ==
  LET named == {i \in 1..Len(reqs) : Truthy(reqs[i].tool)}
  IN [k \in {reqs[i].tool : i \in named} |->
        Cardinality({i \in named : reqs[i].tool = k})]

WindowToolUsage(reqs, cutoff_time) ==
  LET named == {i \in 1..Len(reqs) :
                  reqs[i].timestamp > cutoff_time /\ Truthy(reqs[i].tool)}
  IN [k \in {reqs[i].tool : i \in named} |->
        Cardinality({i \in named : reqs[i].tool = k})]

\* get_metrics: avg_response_times, over self.response_times.items() (each
\* average kept as the fraction sum / len)
AvgResponseTimes(times) ==
  [k \in {tool \in DOMAIN times : times[tool] # <<>>} |->
     [sum |-> SeqSum(times[k]), len |-> Len(times[k])]]

\* get_metrics: error_breakdown, counted over recent_errors (every error
\* event has a "tool" key, so the default "unknown" is never used)
ErrorBreakdown(errs, cutoff_time) ==
  LET recent == {i \in 1..Len(errs) : errs[i].timestamp > cutoff_time}
  IN [k \in {errs[i].tool : i \in recent} |->
        Cardinality({i \in recent : errs[i].tool = k})]

GetMetrics(reqs, errs, times, t, hours) ==
  LET cutoff_time == t - hours * SecondsPerHour
      total_requests == Recent(reqs, cutoff_time)
      total_errors == Recent(errs, cutoff_time)
  IN [period_hours |-> hours,
      total_requests |-> total_requests,
      total_errors |-> total_errors,
      success_rate |-> success_rate(total_requests, total_errors),
      tool_usage |-> WindowToolUsage(reqs, cutoff_time),
      avg_response_times |-> AvgResponseTimes(times),
      error_breakdown |-> ErrorBreakdown(errs, cutoff_time)]

SeqMinHead(q) == Head(q)

SeqMin(q) == CHOOSE x \in {q[i] : i \in 1..Len(q)} : \A i \in 1..Len(q) : x <= q[i]

SeqMax(q) == CHOOSE x \in {q[i] : i \in 1..Len(q)} : \A i \in 1..Len(q) : x >= q[i]

\* get_tool_performance(tool_name).  avg_response_time, sum(times) /
\* len(times), is kept as the fraction sum / len (0 / 1 is the integer 0).
ToolPerformance(times, tool_name) ==
  LET ts == IF tool_name \in DOMAIN times THEN times[tool_name] ELSE <<>>
  IN IF ts = <<>>
     THEN [tool |-> tool_name, total_calls |-> 0,
           avg_response_time |-> [sum |-> 0, len |-> 1],
           min_response_time |-> 0, max_response_time |-> 0]
     ELSE [tool |-> tool_name, total_calls |-> Len(ts),
           avg_response_time |-> [sum |-> SeqSum(ts), len |-> Len(ts)],
           min_response_time |-> SeqMin(ts), max_response_time |-> SeqMax(ts)]

\* datetime.isoformat() and datetime.fromisoformat()
isoformat(t) == <<"iso", t>>

fromisoformat(text) == text[2]

\* datetime.fromisoformat raises ValueError on a text that is no ISO date.
ValidIso(text) == Len(text) = 2 /\ text[1] = "iso"

\* The file as load_metrics finds it: no element when there is no file
\* (open raises), one element, the JSON document, when it is as
\* save_metrics wrote it, and a second element when text that is no JSON
\* follows the document (json.load raises JSONDecodeError).
Readable(file) == Len(file) >= 1

ValidJSON(file) == Len(file) = 1

\* get_recent_errors(count): list(self.errors)[-count:]
get_recent_errors(errs, count) ==
  IF Len(errs) > count THEN SubSeq(errs, Len(errs) - count + 1, Len(errs)) ELSE errs

\* save_metrics: the metrics_data written to the file
MetricsData(start, t, reqs, errs, times, usage) ==
  [start_time |-> isoformat(start),
   current_time |-> isoformat(t),
   metrics |-> GetMetrics(reqs, errs, times, t, DefaultHours),
   tool_usage |-> usage,
   recent_errors |-> get_recent_errors(errs, SavedErrors)]

\* load_metrics: self.tool_usage.update(data.get("tool_usage", {}))
LoadedUsage(usage, data) ==
  [k \in DOMAIN usage \cup DOMAIN data.tool_usage |->
     IF k \in DOMAIN data.tool_usage THEN data.tool_usage[k] ELSE usage[k]]

NoMethod == [op |-> "none", ret |-> <<>>, at |-> 0]

\* A direct call of a MetricsCollector method begins.
MetricsCall ==
  /\ nrec < MaxRecords
  /\ nrec' = nrec + 1
  /\ UNCHANGED <<secvars, now, rlvars, hcvars, connvars>>

\* record_request("call_tool", tool_name)
record_request(tool_name) ==
  /\ MetricsCall
  /\ requests' = RecordRequest(requests, CALL_TOOL, tool_name, now)
  /\ tool_usage' = CountUsage(tool_usage, tool_name)
  /\ m_last' = [op |-> "record_request", ret |-> <<>>, at |-> now]
  /\ req_log' = Append(req_log, [type |-> CALL_TOOL, tool |-> tool_name, timestamp |-> now])
  /\ UNCHANGED <<errors, response_times, start_time, metrics_file, err_log, rt_log>>

\* record_success("call_tool", tool_name, execution_time)
record_success(tool_name, execution_time) ==
  /\ MetricsCall
  /\ response_times' = RecordSuccess(response_times, tool_name, execution_time)
  /\ m_last' = [op |-> "record_success", ret |-> <<>>, at |-> now]
  /\ rt_log' = IF Truthy(tool_name)
               THEN [k \in DOMAIN rt_log \cup {tool_name} |->
                       IF k = tool_name
                       THEN Append(IF k \in DOMAIN rt_log THEN rt_log[k] ELSE <<>>,
                                   execution_time)
                       ELSE rt_log[k]]
               ELSE rt_log
  /\ UNCHANGED <<requests, errors, tool_usage, start_time, metrics_file, req_log, err_log>>

\* record_error("call_tool", tool_name, error_message, execution_time)
record_error(tool_name) ==
  /\ MetricsCall
  /\ errors' = RecordError(errors, CALL_TOOL, tool_name,
                           <<"handler error", tool_name>>, 0, now)
  /\ m_last' = [op |-> "record_error", ret |-> <<>>, at |-> now]
  /\ err_log' = Append(err_log, [type |-> CALL_TOOL, tool |-> tool_name,
                                 error |-> <<"handler error", tool_name>>,
                                 execution_time |-> 0, timestamp |-> now])
  /\ UNCHANGED <<requests, tool_usage, response_times, start_time, metrics_file,
                 req_log, rt_log>>

\* get_metrics(hours)
get_metrics(hours) ==
  /\ MetricsCall
  /\ m_last' = [op |-> "get_metrics", ret |-> GetMetrics(requests, errors, response_times, now, hours),
                at |-> now]
  /\ UNCHANGED <<requests, errors, tool_usage, response_times, start_time, metrics_file, loghist>>

\* get_tool_performance(tool_name)
get_tool_performance(tool_name) ==
  /\ MetricsCall
  /\ m_last' = [op |-> "get_tool_performance",
                ret |-> ToolPerformance(response_times, tool_name), at |-> now]
  /\ UNCHANGED <<requests, errors, tool_usage, response_times, start_time, metrics_file, loghist>>

\* save_metrics(filepath)
save_metrics ==
  /\ MetricsCall
  /\ metrics_file' = <<MetricsData(start_time, now, requests, errors, response_times, tool_usage)>>
  /\ m_last' = [op |-> "save_metrics", ret |-> <<>>, at |-> now]
  /\ UNCHANGED <<requests, errors, tool_usage, response_times, start_time, loghist>>

\* load_metrics(filepath): with no file, open raises and the except branch
\* prints; with one, tool_usage is updated and start_time replaced.
load_metricsRestoring ==
  /\ MetricsCall
  /\ m_last' = [op |-> "load_metrics", ret |-> <<>>, at |-> now]
  /\ IF metrics_file = <<>>
     THEN UNCHANGED <<tool_usage, start_time, errors>>
     ELSE /\ tool_usage' = LoadedUsage(tool_usage, metrics_file[1])
          /\ start_time' = fromisoformat(metrics_file[1].start_time)
          /\ errors' = metrics_file[1].recent_errors
  /\ UNCHANGED <<requests, response_times, metrics_file, loghist>>

\* load_metrics(filepath): open or json.load raises before anything is
\* assigned; otherwise tool_usage is updated first, and start_time is
\* replaced unless fromisoformat raises.  Every exception ends in the except
\* branch, which prints.
load_metrics ==
  /\ MetricsCall
  /\ m_last' = [op |-> "load_metrics", ret |-> <<>>, at |-> now]
  /\ IF ~Readable(metrics_file) \/ ~ValidJSON(metrics_file)
     THEN UNCHANGED <<tool_usage, start_time>>
     ELSE /\ tool_usage' = LoadedUsage(tool_usage, metrics_file[1])
          /\ start_time' = IF ValidIso(metrics_file[1].start_time)
                           THEN fromisoformat(metrics_file[1].start_time)
                           ELSE start_time
  /\ UNCHANGED <<requests, errors, response_times, metrics_file, loghist>>

\* Something other than the server rewrites the file save_metrics wrote:
\* text that is no JSON is appended to it, or its start_time is replaced by
\* a string that is no ISO date.
DamageFile(kind) ==
  /\ ValidJSON(metrics_file)
  /\ ValidIso(metrics_file[1].start_time)
  /\ metrics_file' =
       IF kind = "not json" THEN Append(metrics_file, "garbage")
       ELSE <<[metrics_file[1] EXCEPT !.start_time = <<"not a date">>]>>
  /\ UNCHANGED <<secvars, now, rlvars, hcvars, connvars, requests, errors,
                 tool_usage, response_times, start_time, m_last, nrec, loghist>>

\* MetricsCollector(): the process starts again with a fresh collector; the
\* file stays.
NewCollector ==
  /\ MetricsCall
  /\ requests' = <<>>
  /\ errors' = <<>>
  /\ tool_usage' = << >>
  /\ response_times' = << >>
  /\ start_time' = now
  /\ req_log' = <<>>
  /\ err_log' = <<>>
  /\ rt_log' = << >>
  /\ m_last' = [op |-> "MetricsCollector", ret |-> <<>>, at |-> now]
  /\ UNCHANGED metrics_file

\* ------------------------------------------------------------- dispatcher
\* The exception messages of handle_call_tool and the handlers.
NotAllowedMsg(tool_name) == <<"Tool is not allowed", tool_name>>
RateLimitMsg(tool_name) == <<"Rate limit exceeded for tool", tool_name>>
UnknownToolMsg(tool_name) == <<"Unknown tool", tool_name>>
HandlerErrorMsg(tool_name) == <<"handler error", tool_name>>
\* str(e) of the TypeError json.dumps raises on a bytes value
NotSerializableMsg == <<"Object of type bytes is not JSON serializable">>

\* CallToolResult(content=[TextContent(text=json.dumps(result))])
ToolResult(tool_name) == [isError |-> FALSE, text |-> <<"result", tool_name>>]
\* CallToolResult(content=[TextContent(text=f"Error: {e}")], isError=True)
ToolError(msg) == [isError |-> TRUE, text |-> msg]
\* The same success result around the dict system_command returns when its
\* command timed out: {"success": False, "error": "Command timed out ..."}
TimeoutResult(tool_name) ==
  [isError |-> FALSE, text |-> <<"Command timed out", tool_name>>]

NoCall == [tool |-> NoKey, ret |-> [isError |-> FALSE, text |-> <<>>],
           trace |-> <<>>, start |-> 0, at |-> 0, outcome |-> "none",
           child |-> "none"]

\* handle_call_tool lines 177-183: the allow-list test, then the rate limit.
\* stage: where the call stands; rl: rate_limits afterwards; trace: the
\* checks made, in order, each with its answer.
\* (In a trace, "route" is the call of _route_tool_call and "handler" the
\* entry into a tool body.)
AdmissionRateFirst(tool_name, rl, t) ==
  IF ~CheckResult(rl, tool_name, t)
  THEN [stage |-> "rate_limited", rl |-> CheckEffect(rl, tool_name, t),
        trace |-> <<"check_rate_limit:no">>]
  ELSE IF ~is_tool_allowed(tool_name)
  THEN [stage |-> "unauthorized", rl |-> CheckEffect(rl, tool_name, t),
        trace |-> <<"check_rate_limit:yes", "is_tool_allowed:no">>]
  ELSE [stage |-> "admitted", rl |-> CheckEffect(rl, tool_name, t),
        trace |-> <<"check_rate_limit:yes", "is_tool_allowed:yes">>]

AdmissionRetry(tool_name, rl, t) ==
  IF ~is_tool_allowed(tool_name)
  THEN [stage |-> "unauthorized", rl |-> rl,
        trace |-> <<"is_tool_allowed:no">>]
  ELSE IF ~CheckResult(rl, tool_name, t)
  THEN [stage |-> "rate_limited",
        rl |-> CheckEffect(CheckEffect(rl, tool_name, t), tool_name, t),
        trace |-> <<"is_tool_allowed:yes", "check_rate_limit:no",
                    "check_rate_limit:no">>]
  ELSE [stage |-> "admitted", rl |-> CheckEffect(rl, tool_name, t),
        trace |-> <<"is_tool_allowed:yes", "check_rate_limit:yes">>]

AdmissionTouchWindow(tool_name, rl, t) ==
  IF ~is_tool_allowed(tool_name)
  THEN [stage |-> "unauthorized", rl |-> SetWindow(rl, tool_name, Window(rl, tool_name)),
        trace |-> <<"is_tool_allowed:no">>]
  ELSE IF ~CheckResult(rl, tool_name, t)
  THEN [stage |-> "rate_limited", rl |-> CheckEffect(rl, tool_name, t),
        trace |-> <<"is_tool_allowed:yes", "check_rate_limit:no">>]
  ELSE [stage |-> "admitted", rl |-> CheckEffect(rl, tool_name, t),
        trace |-> <<"is_tool_allowed:yes", "check_rate_limit:yes">>]

Admission(tool_name, rl, t) ==
  IF ~is_tool_allowed(tool_name)
  THEN [stage |-> "unauthorized", rl |-> rl,
        trace |-> <<"is_tool_allowed:no">>]
  ELSE IF ~CheckResult(rl, tool_name, t)
  THEN [stage |-> "rate_limited", rl |-> CheckEffect(rl, tool_name, t),
        trace |-> <<"is_tool_allowed:yes", "check_rate_limit:no">>]
  ELSE [stage |-> "admitted", rl |-> CheckEffect(rl, tool_name, t),
        trace |-> <<"is_tool_allowed:yes", "check_rate_limit:yes">>]

\* _route_tool_call and the handler's handle_tool_call: "body" when a tool
\* body is entered, "unknown" when either raises Unknown tool.
RoutePrefixOnly(tool_name) ==
  IF PrefixOf(tool_name) \notin RoutedPrefixes THEN "unknown" ELSE "body"

Route(tool_name) ==
  IF PrefixOf(tool_name) \notin RoutedPrefixes THEN "unknown"
  ELSE IF tool_name \notin ImplementedTools THEN "unknown"
  ELSE "body"

\* handle_call_tool from its first line to the first suspension: the call
\* is refused (the except branch runs: record_error, an error result is
\* returned) or the tool body is entered and awaits its I/O.  A new
\* coroutine has no identity of its own: it takes the first free slot.
HandleCallToolBegin(c, tool_name) ==
  LET adm == Admission(tool_name, rate_limits, now)
      entered == adm.stage = "admitted" /\ Route(tool_name) = "body"
      msg == IF adm.stage = "unauthorized" THEN NotAllowedMsg(tool_name)
             ELSE IF adm.stage = "rate_limited" THEN RateLimitMsg(tool_name)
             ELSE UnknownToolMsg(tool_name)
      trace == adm.trace
               \o (IF adm.stage = "admitted"
                   THEN <<"record_request", "route">> ELSE <<>>)
               \o (IF entered THEN <<"handler">> ELSE <<"record_error">>)
  IN /\ hc_pc[c] = "idle"
     /\ \A d \in Slots : d < c => hc_pc[d] # "idle"
     /\ ncalls < MaxCalls
     /\ ncalls' = ncalls + 1
     /\ rate_limits' = adm.rl
     /\ requests' = IF adm.stage = "admitted"
                    THEN RecordRequest(requests, CALL_TOOL, tool_name, now)
                    ELSE requests
     /\ tool_usage' = IF adm.stage = "admitted"
                      THEN CountUsage(tool_usage, tool_name)
                      ELSE tool_usage
     /\ errors' = IF entered
                  THEN errors
                  ELSE RecordError(errors, CALL_TOOL, tool_name, msg, now - now, now)
     /\ IF entered
        THEN /\ hc_pc' = [hc_pc EXCEPT ![c] = "executing"]
             /\ hc_tool' = [hc_tool EXCEPT ![c] = tool_name]
             /\ hc_start' = [hc_start EXCEPT ![c] = now]
             /\ hc_trace' = [hc_trace EXCEPT ![c] = trace]
             /\ UNCHANGED done
        ELSE /\ done' = [tool |-> tool_name, ret |-> ToolError(msg),
                         trace |-> trace, start |-> now, at |-> now,
                         outcome |-> "none", child |-> "none"]
             /\ UNCHANGED <<hc_pc, hc_tool, hc_start, hc_trace>>
     /\ UNCHANGED <<secvars, now, response_times, mauxvars, rlhist, connvars>>

\* await self._route_tool_call(...) returns a dict (line 189 completes), so
\* record_success at line 193 runs.
HandlerReturned(outcome) == outcome \in {"returns", "timeout", "unserializable"}

\* The except branch at lines 199-210 runs: the handler raised, or
\* json.dumps(result) at line 196 did.
ExceptBranch(outcome) == outcome \in {"raises", "unserializable"}

\* str(e) in the except branch
EndErrorMsgGeneric(tool_name, outcome) == <<"Internal error">>

EndErrorMsg(tool_name, outcome) ==
  IF outcome = "unserializable" THEN NotSerializableMsg
  ELSE HandlerErrorMsg(tool_name)

\* The CallToolResult handle_call_tool returns once the tool body is over.
EndResult(tool_name, outcome) ==
  IF ExceptBranch(outcome) THEN ToolError(EndErrorMsg(tool_name, outcome))
  ELSE IF outcome = "timeout" THEN TimeoutResult(tool_name)
  ELSE ToolResult(tool_name)

\* The child process of a call when handle_call_tool returns.
\* _execute_command raises KeyError before create_subprocess_shell when
\* "command" is missing; returns after process.communicate() has read the
\* output of a process that ended; and on TimeoutError returns its dict
\* with the process as it is: wait_for cancels communicate(), and neither
\* process.kill() nor process.terminate() is called anywhere.
ChildAtReturn(tool_name, outcome) ==
  IF tool_name # SYSTEM_COMMAND THEN "none"
  ELSE IF outcome = "returns" THEN "exited"
  ELSE IF outcome = "timeout" THEN "running"
  ELSE "none"

\* The tool body is over: it returned a dict (record_success, then the
\* result is serialised and returned) or raised (the except branch:
\* record_error, an error result is returned).
HandleCallToolEnd(c, outcome) ==
  LET tool_name == hc_tool[c]
      execution_time == now - hc_start[c]
  IN /\ hc_pc[c] = "executing"
     /\ outcome \in HandlerOutcomes(tool_name)
     /\ response_times' = IF HandlerReturned(outcome)
                          THEN RecordSuccess(response_times, tool_name, execution_time)
                          ELSE response_times
     /\ errors' = IF ExceptBranch(outcome)
                  THEN RecordError(errors, CALL_TOOL, tool_name,
                                   EndErrorMsg(tool_name, outcome), execution_time, now)
                  ELSE errors
     /\ done' = [tool |-> tool_name,
                 ret |-> EndResult(tool_name, outcome),
                 trace |-> hc_trace[c]
                           \o (IF HandlerReturned(outcome)
                               THEN <<"record_success">> ELSE <<>>)
                           \o (IF ExceptBranch(outcome)
                               THEN <<"record_error">> ELSE <<>>),
                 start |-> hc_start[c], at |-> now, outcome |-> outcome,
                 child |-> ChildAtReturn(tool_name, outcome)]
     /\ hc_pc' = [hc_pc EXCEPT ![c] = "idle"]
     /\ hc_tool' = [hc_tool EXCEPT ![c] = NoKey]
     /\ hc_start' = [hc_start EXCEPT ![c] = 0]
     /\ hc_trace' = [hc_trace EXCEPT ![c] = <<>>]
     /\ UNCHANGED <<secvars, now, rlvars, requests, tool_usage, mauxvars, ncalls, connvars>>

\* MetricsCollector(): the dataclass defaults
InitCollector ==
  /\ start_time = 0
  /\ metrics_file = <<>>
  /\ m_last = NoMethod
  /\ nrec = 0
  /\ requests = <<>>
  /\ errors = <<>>
  /\ tool_usage = << >>
  /\ response_times = << >>
  /\ req_log = <<>>
  /\ err_log = <<>>
  /\ rt_log = << >>

\* A collector that has run for long: RequestsMaxLen - 1 requests (one short
\* of the buffer's capacity) and ErrorsMaxLen errors (a full buffer) were
\* recorded for file_read at instant 0.
InitLongRunning ==
  /\ start_time = 0
  /\ metrics_file = <<>>
  /\ m_last = NoMethod
  /\ nrec = 0
  /\ requests = [i \in 1..(RequestsMaxLen - 1) |->
                   [type |-> CALL_TOOL, tool |-> FILE_READ, timestamp |-> 0]]
  /\ errors = [i \in 1..ErrorsMaxLen |->
                 [type |-> CALL_TOOL, tool |-> FILE_READ,
                  error |-> <<"handler error", FILE_READ>>,
                  execution_time |-> 0, timestamp |-> 0]]
  /\ tool_usage = [k \in {FILE_READ} |-> RequestsMaxLen - 1]
  /\ response_times = << >>
  /\ req_log = requests
  /\ err_log = errors
  /\ rt_log = << >>

\* A collector that has recorded ResponseTimesKeep - 1 successes of
\* file_read, each of one second: one short of the length the history is
\* trimmed to.
InitLongSampled ==
  /\ start_time = 0
  /\ metrics_file = <<>>
  /\ m_last = NoMethod
  /\ nrec = 0
  /\ requests = <<>>
  /\ errors = <<>>
  /\ tool_usage = << >>
  /\ response_times = [k \in {FILE_READ} |-> [i \in 1..(ResponseTimesKeep - 1) |-> 1]]
  /\ req_log = <<>>
  /\ err_log = <<>>
  /\ rt_log = response_times

InitCoroutines ==
  /\ hc_pc = [c \in Slots |-> "idle"]
  /\ hc_tool = [c \in Slots |-> NoKey]
  /\ hc_start = [c \in Slots |-> 0]
  /\ hc_trace = [c \in Slots |-> <<>>]
  /\ done = NoCall
  /\ ncalls = 0

InitDispatch == InitCollector /\ InitCoroutines


\* ------------------------------------------------------- main: stdio loop
\* Request ids; NoId is None, what message.get("id") gives for a message
\* without an id and what json.dumps prints as null.
Ids == {"abc123", "r2"}
NoId == "null"

Methods == {"initialize", "tools/list", "tools/call", "resources/list"}

\* The tool names of the tools/call lines.
ConnToolNames == {FILE_READ, NONEXISTENT_TOOL}

\* A line of input.  kind: "empty"; "undecodable" (json.loads raises; id is
\* the id readable in its text, if any); "nonobject" (valid JSON that is no
\* object); "object".  params: "dict", or "other" for a params member that
\* is no object.
Line(kind, id, method, params, name) ==
  [kind |-> kind, id |-> id, method |-> method, params |-> params, name |-> name]

Lines ==
  {Line("empty", NoId, "none", "none", NoKey)}
  \cup {Line("undecodable", id, "none", "none", NoKey) : id \in Ids \cup {NoId}}
  \cup {Line("nonobject", NoId, "none", "none", NoKey)}
  \cup {Line("object", id, m, "dict", NoKey) :
          id \in Ids \cup {NoId}, m \in Methods \ {"tools/call"}}
  \cup {Line("object", id, "tools/call", "dict", n) :
          id \in Ids \cup {NoId}, n \in ConnToolNames}
  \cup {Line("object", id, "tools/call", "other", NoKey) : id \in Ids \cup {NoId}}

\* message before the first successful json.loads: not in locals()
Unbound == Line("unbound", NoId, "none", "none", NoKey)

\* str(e) of the exceptions main catches
JSONDecodeErrorMsg == <<"JSONDecodeError">>
AttributeErrorMsg == <<"AttributeError: object has no attribute 'get'">>
TypeErrorMsg ==
  <<"TypeError: handle_call_tool() takes 2 positional arguments but 3 were given">>
MethodNotFoundMsg(method) == <<"Method not found", method>>

\* message.get("id")
GetIdNone(msg) == NoId

GetId(msg) == msg.id

ResultResponse(id, result) ==
  [jsonrpc |-> "2.0", id |-> id, result |-> result]

ErrorResponseWithResult(id, code, msg) ==
  [jsonrpc |-> "2.0", id |-> id, result |-> <<>>,
   error |-> [code |-> code, message |-> msg]]

ErrorResponse(id, code, msg) ==
  [jsonrpc |-> "2.0", id |-> id, error |-> [code |-> code, message |-> msg]]

\* main lines 382-390: the except branch around the call of handle_call_tool
CallFailedResponseMethodNotFound(msg, e) ==
  ErrorResponse(GetId(msg), MethodNotFound, e)

CallFailedResponse(msg, e) == ErrorResponse(GetId(msg), InternalError, e)

\* main lines 391-399: the else branch, for a method that is none of the
\* three handled
MethodNotFoundResponseInternal(msg) ==
  ErrorResponse(GetId(msg), InternalError, MethodNotFoundMsg(msg.method))

MethodNotFoundResponse(msg) ==
  ErrorResponse(GetId(msg), MethodNotFound, MethodNotFoundMsg(msg.method))

\* main lines 407-418: the except branch of the loop body.  message is the
\* local variable: still what an earlier iteration bound it to when
\* json.loads raised in this one.
LoopErrorResponse(msg, e) ==
  ErrorResponse(IF msg.kind # "unbound" THEN GetId(msg) ELSE NoId, InternalError, e)

\* print(json.dumps(response)); sys.stdout.flush()
EmitNothing(out, response) == out

Emit(out, response) == Append(out, response)

\* line = input()
ReadLine(l) ==
  /\ conn_pc = "reading"
  /\ nlines < MaxLines
  /\ nlines' = nlines + 1
  /\ line' = l
  /\ inbox' = IF l.kind = "empty" THEN inbox ELSE Append(inbox, l)
  /\ conn_pc' = "handling"
  /\ UNCHANGED <<secvars, now, rlvars, metricvars, hcvars, message, output>>

\* input() raises EOFError: break
EndOfInput ==
  /\ conn_pc = "reading"
  /\ conn_pc' = "exited"
  /\ UNCHANGED <<secvars, now, rlvars, metricvars, hcvars, line, message, inbox, output, nlines>>

\* if not line: continue
SkipEmptyLine ==
  /\ conn_pc = "handling"
  /\ line.kind = "empty"
  /\ conn_pc' = "reading"
  /\ UNCHANGED <<secvars, now, rlvars, metricvars, hcvars, line, message, inbox, output, nlines>>

\* json.loads(line) raises: the except branch prints an error response
DecodeFails ==
  /\ conn_pc = "handling"
  /\ line.kind = "undecodable"
  /\ output' = Emit(output, LoopErrorResponse(message, JSONDecodeErrorMsg))
  /\ conn_pc' = "reading"
  /\ UNCHANGED <<secvars, now, rlvars, metricvars, hcvars, line, message, inbox, nlines>>

\* json.loads(line) gives a list, a string, a number or null: message.get
\* raises AttributeError; in the except branch message is bound, so
\* message.get("id") raises again, out of the loop: logger.error, sys.exit(1)
NotAnObject ==
  /\ conn_pc = "handling"
  /\ line.kind = "nonobject"
  /\ message' = line
  /\ conn_pc' = "crashed"
  /\ UNCHANGED <<secvars, now, rlvars, metricvars, hcvars, line, inbox, output, nlines>>

\* method == "initialize"
MethodInitialize ==
  /\ conn_pc = "handling"
  /\ line.kind = "object" /\ line.method = "initialize"
  /\ message' = line
  /\ output' = Emit(output, ResultResponse(GetId(line), <<"serverInfo">>))
  /\ conn_pc' = "reading"
  /\ UNCHANGED <<secvars, now, rlvars, metricvars, hcvars, line, inbox, nlines>>

\* method == "tools/list"
MethodToolsList ==
  /\ conn_pc = "handling"
  /\ line.kind = "object" /\ line.method = "tools/list"
  /\ message' = line
  /\ output' = Emit(output, ResultResponse(GetId(line), <<"tools">>))
  /\ conn_pc' = "reading"
  /\ UNCHANGED <<secvars, now, rlvars, metricvars, hcvars, line, inbox, nlines>>

\* method == "tools/call", params an object: server.handle_call_tool(
\* tool_name, arguments) raises TypeError at the call; neither the allow-list
\* nor the rate limiter nor the metrics are touched
MethodToolsCall ==
  /\ conn_pc = "handling"
  /\ line.kind = "object" /\ line.method = "tools/call" /\ line.params = "dict"
  /\ message' = line
  /\ output' = Emit(output, CallFailedResponse(line, TypeErrorMsg))
  /\ conn_pc' = "reading"
  /\ UNCHANGED <<secvars, now, rlvars, metricvars, hcvars, line, inbox, nlines>>

\* method == "tools/call", params no object: params.get raises
\* AttributeError outside the inner try; the except branch of the loop body
MethodToolsCallBadParams ==
  /\ conn_pc = "handling"
  /\ line.kind = "object" /\ line.method = "tools/call" /\ line.params = "other"
  /\ message' = line
  /\ output' = Emit(output, LoopErrorResponse(line, AttributeErrorMsg))
  /\ conn_pc' = "reading"
  /\ UNCHANGED <<secvars, now, rlvars, metricvars, hcvars, line, inbox, nlines>>

\* else: Method not found
MethodUnknown ==
  /\ conn_pc = "handling"
  /\ line.kind = "object"
  /\ line.method \notin {"initialize", "tools/list", "tools/call"}
  /\ message' = line
  /\ output' = Emit(output, MethodNotFoundResponse(line))
  /\ conn_pc' = "reading"
  /\ UNCHANGED <<secvars, now, rlvars, metricvars, hcvars, line, inbox, nlines>>

InitConn ==
  /\ conn_pc = "reading"
  /\ line = Line("empty", NoId, "none", "none", NoKey)
  /\ message = Unbound
  /\ inbox = <<>>
  /\ output = <<>>
  /\ nlines = 0

Init == InitSecurity /\ InitRL /\ InitDispatch /\ InitConn

InitAllow == InitConfigured /\ InitRL /\ InitDispatch /\ InitConn

NextAllow ==
  \/ \E tool_name \in ToolNames : Configure(tool_name)
  \/ \E tool_name \in ToolNames : Query(tool_name)

SpecAllow == InitAllow /\ [][NextAllow]_vars

NextRL ==
  \/ Tick
  \/ \E c \in Callers, k \in RLKeys : RLInvoke(c, k)
  \/ \E c \in Callers : check_rate_limit(c)

SpecRL == Init /\ [][NextRL]_vars

Next ==
  \/ TickDispatch
  \/ \E c \in Slots, tool_name \in AdmissionTools : HandleCallToolBegin(c, tool_name)
  \/ \E c \in Slots, outcome \in Outcomes : HandleCallToolEnd(c, outcome)

Spec == Init /\ [][Next]_vars

NextExec ==
  \/ TickDispatch
  \/ \E c \in Slots, tool_name \in ExecTools : HandleCallToolBegin(c, tool_name)
  \/ \E c \in Slots, outcome \in Outcomes : HandleCallToolEnd(c, outcome)

SpecExec == Init /\ [][NextExec]_vars

\* The command texts the system_command calls of SpecShell carry: the empty
\* text and each fragment alone ("ls" is safe; "su" and "Sudo" hold a
\* blocked command).
ShellCommands == Built(1)

\* The server as MCPServerState builds it, and the text the system_command
\* calls will carry.
InitShell ==
  /\ configured = {}
  /\ sm_allowed_tools = post_init(configured)
  /\ al_last = NoQuery
  /\ cs_command \in ShellCommands
  /\ cs_last = NoSafeCheck
  /\ rate_limit_per_minute = load_from_env(UnsetEnv)
  /\ InitRL /\ InitDispatch /\ InitConn

\* system_command calls only: handle_call_tool, _route_tool_call,
\* SystemTools.handle_tool_call and _execute_command; none of them calls
\* is_command_safe, so cs_last stays as it is.
NextShell ==
  \/ TickDispatch
  \/ \E c \in Slots : HandleCallToolBegin(c, SYSTEM_COMMAND)
  \/ \E c \in Slots, outcome \in Outcomes : HandleCallToolEnd(c, outcome)

SpecShell == InitShell /\ [][NextShell]_vars

\* A collector that records requests, saves, is built anew and loads, with
\* a file that can be damaged between the save and the load.
NextLoad ==
  \/ TickMetrics
  \/ \E tool_name \in MetricTools : record_request(tool_name)
  \/ save_metrics
  \/ \E kind \in {"not json", "start_time"} : DamageFile(kind)
  \/ load_metrics
  \/ NewCollector

SpecLoad == Init /\ [][NextLoad]_vars

\* main(): Config() reads the environment, MCPServer(config) keeps the
\* Config and builds MCPServerState(), whose SecurityManager() takes no
\* argument: nothing of the Config reaches it.
InitConfig ==
  /\ configured = {}
  /\ sm_allowed_tools = post_init(configured)
  /\ al_last = NoQuery
  /\ cs_command = <<>>
  /\ cs_last = NoSafeCheck
  /\ \E MCP_RATE_LIMIT \in RateLimitSettings :
        rate_limit_per_minute = load_from_env(MCP_RATE_LIMIT)
  /\ InitRL /\ InitDispatch /\ InitConn

NextConfig ==
  \/ TickDispatch
  \/ \E c \in Slots, tool_name \in RLKeys : HandleCallToolBegin(c, tool_name)
  \/ \E c \in Slots, outcome \in Outcomes : HandleCallToolEnd(c, outcome)

SpecConfig == InitConfig /\ [][NextConfig]_vars

NextConn ==
  \/ \E l \in Lines : ReadLine(l)
  \/ EndOfInput
  \/ SkipEmptyLine
  \/ DecodeFails
  \/ NotAnObject
  \/ MethodInitialize
  \/ MethodToolsList
  \/ MethodToolsCall
  \/ MethodToolsCallBadParams
  \/ MethodUnknown

SpecConn == Init /\ [][NextConn]_vars

NextMetrics ==
  \/ TickMetrics
  \/ \E tool_name \in MetricTools : record_request(tool_name)
  \/ \E tool_name \in SampledTools, execution_time \in SampleTimes :
       record_success(tool_name, execution_time)
  \/ \E tool_name \in MetricTools : record_error(tool_name)
  \/ \E hours \in Hours : get_metrics(hours)
  \/ \E tool_name \in MetricTools : get_tool_performance(tool_name)
  \/ save_metrics
  \/ load_metrics
  \/ NewCollector

SpecMetrics == Init /\ [][NextMetrics]_vars

InitSafe == InitCommand /\ InitRL /\ InitDispatch /\ InitConn

NextSafe == CheckCommand

SpecSafe == InitSafe /\ [][NextSafe]_vars

InitBuf == InitSecurity /\ InitRL /\ InitLongRunning /\ InitCoroutines /\ InitConn

NextBuf ==
  \/ TickDispatch
  \/ \E tool_name \in MetricTools \cup {None} :
       nrec < MaxBufCalls /\ record_request(tool_name)
  \/ \E tool_name \in FailedTools : nrec < MaxBufCalls /\ record_error(tool_name)

SpecBuf == InitBuf /\ [][NextBuf]_vars

InitLat == InitSecurity /\ InitRL /\ InitLongSampled /\ InitCoroutines /\ InitConn

NextLat ==
  \E tool_name \in MetricTools \cup {None}, execution_time \in SampleTimes :
     nrec < MaxLatCalls /\ record_success(tool_name, execution_time)

SpecLat == InitLat /\ [][NextLat]_vars

\* ---------------------------------------------------- rate limiter claims
\* Caller c runs check_rate_limit in this step.
Checks(c) == rl_pc[c] = "pending" /\ rl_pc'[c] = "idle"

\* The admitted checks of key k stamped within [t - WindowSecs, t].
AdmittedWithin(k, t) ==
  Cardinality({i \in 1..Len(admitted[k]) :
                 admitted[k][i] >= t - WindowSecs /\ admitted[k][i] <= t})

IsSuffix(s, w) ==
  /\ Len(s) <= Len(w)
  /\ \A i \in 1..Len(s) : s[i] = w[Len(w) - Len(s) + i]

\* C1: whatever the order in which waiting callers run their checks, no
\* 60-second window ending at any instant holds more than
\* max_requests_per_minute admitted checks of one key; and when a check
\* takes the last free slot of a key while other callers wait to check that
\* key, the state it leaves refuses them.
C1_AtMostMaxPerWindow ==
  [][/\ \A k \in RLKeys, t \in Instants :
          AdmittedWithin(k, t)' <= max_requests_per_minute
     /\ \A c \in Callers :
          (/\ Checks(c)
           /\ last'.result
           /\ Len(Evict(Window(rate_limits, rl_key[c]), now - WindowSecs))
                = max_requests_per_minute - 1)
          => ~CheckResult(rate_limits', rl_key[c], now')]_vars

\* C1 witness: a check took the last slot of a key while another caller was
\* waiting to check the same key.
C1_Witness ==
  /\ last.result
  /\ Len(last.before) = max_requests_per_minute - 1
  /\ Len(Window(rate_limits, last.key)) = max_requests_per_minute
  /\ last.contenders # {}

\* C2: every key's deque holds at most max_requests_per_minute stamps.
C2_WindowBounded ==
  \A k \in DOMAIN rate_limits : Len(rate_limits[k]) <= max_requests_per_minute

\* C2 witness: a key admitted more than max_requests_per_minute times over
\* its life whose deque is full again.
C2_Witness ==
  \E k \in DOMAIN rate_limits :
    /\ Len(rate_limits[k]) = max_requests_per_minute
    /\ Len(admitted[k]) > max_requests_per_minute

\* C3: a check of a key whose deque holds max_requests_per_minute stamps is
\* refused exactly while the oldest stamp is not older than 60 seconds, and
\* admitted once it is.
C3_RejectedUntilOldestExpires ==
  [][\A c \in Callers :
       (Checks(c)
        /\ Len(Window(rate_limits, rl_key[c])) = max_requests_per_minute)
       => (last'.result
            = (Head(Window(rate_limits, rl_key[c])) < now - WindowSecs))]_vars

\* C3 witness: max admissions from time 0 on, a refusal while the first is
\* still inside the window, and an admission 61 seconds after the first.
C3_Witness ==
  /\ refused.key = FILE_READ
  /\ Len(admitted[FILE_READ]) = max_requests_per_minute + 1
  /\ admitted[FILE_READ][1] = 0
  /\ refused.at >= admitted[FILE_READ][max_requests_per_minute]
  /\ refused.at <= WindowSecs
  /\ admitted[FILE_READ][max_requests_per_minute + 1] = WindowSecs + 1
  /\ last.result /\ last.key = FILE_READ

\* C4: a check that returns false appends nothing: no admission is
\* recorded, and every deque is what it was, less expired stamps at its
\* front.
C4_RejectedAppendsNothing ==
  [][\A c \in Callers :
       (Checks(c) /\ ~last'.result)
       => /\ admitted' = admitted
          /\ \A k \in RLKeys :
               /\ IsSuffix(Window(rate_limits', k), Window(rate_limits, k))
               /\ \A i \in 1..(Len(Window(rate_limits, k))
                                 - Len(Window(rate_limits', k))) :
                    Window(rate_limits, k)[i] < now - WindowSecs]_vars

\* C4 witness: a refused check, the deque as it found it.
C4_Witness ==
  /\ ~last.result
  /\ last.key # NoKey
  /\ Window(rate_limits, last.key) = last.before
  /\ Len(last.before) = max_requests_per_minute

\* C5: a check of one key leaves every other key's deque, and so the
\* outcome of a check of that other key, as it was.
C5_KeysIndependent ==
  [][\A c \in Callers :
       Checks(c)
       => \A k \in RLKeys \ {rl_key[c]} :
            /\ (k \in DOMAIN rate_limits') = (k \in DOMAIN rate_limits)
            /\ Window(rate_limits', k) = Window(rate_limits, k)
            /\ CheckResult(rate_limits', k, now)
                 = CheckResult(rate_limits, k, now)]_vars

\* C5 witness: file_read is exhausted (a check of it was refused) and a
\* check of git_status is admitted at that same instant.
C5_Witness ==
  /\ refused.key = FILE_READ
  /\ Len(Window(rate_limits, FILE_READ)) = max_requests_per_minute
  /\ last.key = GIT_STATUS
  /\ last.result
  /\ last.at = refused.at

\* ------------------------------------------------------ dispatcher claims
Has(tr, e) == \E i \in 1..Len(tr) : tr[i] = e

\* In trace tr the allow-list test precedes every rate-limit check, an
\* admitting rate-limit check precedes every handler invocation, and a
\* refusal by either is followed by no handler invocation.
ChecksInOrder(tr) ==
  /\ \A j \in 1..Len(tr) :
       tr[j] \in {"check_rate_limit:yes", "check_rate_limit:no"}
       => \E i \in 1..(j - 1) : tr[i] = "is_tool_allowed:yes"
  /\ \A j \in 1..Len(tr) :
       tr[j] = "handler"
       => \E i \in 1..(j - 1) : tr[i] = "check_rate_limit:yes"
  /\ (Has(tr, "is_tool_allowed:no") \/ Has(tr, "check_rate_limit:no"))
     => ~Has(tr, "handler")

\* C6: in every call of handle_call_tool, in flight or returned, the
\* allow-list test comes before the rate-limit check and that before the
\* handler; a tool body runs only for an allowed tool; a call refused by the
\* allow-list or the rate limiter returns its error without a handler
\* invocation.
C6_ChecksBeforeHandler ==
  /\ ChecksInOrder(done.trace)
  /\ \A c \in Slots :
       /\ ChecksInOrder(hc_trace[c])
       /\ hc_pc[c] = "executing"
          => (is_tool_allowed(hc_tool[c]) /\ Has(hc_trace[c], "handler"))
  /\ done.ret \in {ToolError(NotAllowedMsg(done.tool)),
                   ToolError(RateLimitMsg(done.tool))}
     => ~Has(done.trace, "handler")

\* C6 witness: a call of file_read has been refused by the rate limiter,
\* without a handler invocation, while an admitted call of file_read is in
\* its handler.
C6_Witness ==
  /\ done.ret = ToolError(RateLimitMsg(FILE_READ))
  /\ done.trace = <<"is_tool_allowed:yes", "check_rate_limit:no", "record_error">>
  /\ \E c \in Slots : hc_pc[c] = "executing" /\ hc_tool[c] = FILE_READ

\* ------------------------------------------------------- stdio loop claims
\* The line being handled, or the line that ended the process, has no
\* response yet.
Unanswered ==
  IF (conn_pc = "handling" /\ line.kind # "empty") \/ conn_pc = "crashed"
  THEN 1 ELSE 0

IsError(r) == "error" \in DOMAIN r

IsResult(r) == "result" \in DOMAIN r

IsToolsCall(l) == l.kind = "object" /\ l.method = "tools/call"

\* C7: the responses printed are, in order, one for each non-empty line
\* handled, and the response to a line that decodes to a request object
\* carries that request's id (null when it has none).
C7_OneResponseEchoingId ==
  /\ Len(output) = Len(inbox) - Unanswered
  /\ \A i \in 1..Len(output) :
       inbox[i].kind = "object" => output[i].id = inbox[i].id

\* C7 witness: a result response and an error response, each to a request
\* object, one echoing the id "abc123" and one with no id.
C7_Witness ==
  \E i, j \in 1..Len(output) :
    /\ inbox[i].kind = "object" /\ IsResult(output[i]) /\ output[i].id = "abc123"
    /\ inbox[j].kind = "object" /\ IsError(output[j]) /\ output[j].id = NoId

\* C8 (as claimed): the response to a tools/call that fails because the
\* tool is not on the allow-list is an error of code -32603 carrying that
\* failure's message, and has no result member.
C8_FailureMessageCarried ==
  \A i \in 1..Len(output) :
    (IsToolsCall(inbox[i]) /\ inbox[i].params = "dict"
     /\ ~is_tool_allowed(inbox[i].name))
    => /\ IsError(output[i])
       /\ ~IsResult(output[i])
       /\ output[i].error.code = InternalError
       /\ output[i].error.message = NotAllowedMsg(inbox[i].name)

\* A tools/call naming nonexistent_tool.
CallsNonexistent(l) ==
  IsToolsCall(l) /\ l.params = "dict" /\ l.name = NONEXISTENT_TOOL

C10_MalformedLineIdNotStale ==
  \A i \in 1..Len(output) :
    inbox[i].kind = "undecodable"
    => (IsError(output[i]) /\ output[i].id \in {inbox[i].id, NoId})

\* C11 (as claimed): every line handled, whatever it holds, takes the loop
\* back to reading the next line, and the loop ends only when input() meets
\* the end of input while reading.
C11_LoopReadsOn ==
  [][/\ conn_pc = "handling" => conn_pc' = "reading"
     /\ conn_pc' \in {"exited", "crashed"}
        => (conn_pc = "reading" /\ conn_pc' = "exited")]_vars

\* ------------------------------------------- dispatcher claims, continued
\* A call of handle_call_tool begins in this step.
BeginStep == ncalls' = ncalls + 1

\* The call that begins in this step enters a tool body and is suspended.
Entered == \E c \in Slots : hc_pc[c] = "idle" /\ hc_pc'[c] = "executing"

EnteredSlot == CHOOSE c \in Slots : hc_pc[c] = "idle" /\ hc_pc'[c] = "executing"

\* The tool name and the trace of the call that begins in this step.
BegunTool == IF Entered THEN hc_tool'[EnteredSlot] ELSE done'.tool

BegunTrace == IF Entered THEN hc_trace'[EnteredSlot] ELSE done'.trace

\* The calls of tool_name recorded in the request log with a stamp of the
\* last 60 seconds.
RecentRequests(tool_name) ==
  Cardinality({i \in 1..Len(requests) :
                 /\ requests[i].tool = tool_name
                 /\ requests[i].timestamp >= now - WindowSecs})

\* C12: a call of an allowed tool that finds fewer than
\* max_requests_per_minute admitted calls of that tool in the last minute is
\* admitted and handed to its handler (a tool that has a body enters it); a
\* call that finds max_requests_per_minute of them returns the rate-limit
\* error at once, with no handler invocation and no request recorded.
C12_FirstNAdmittedNextRejected ==
  [][(BeginStep /\ is_tool_allowed(BegunTool))
     => IF RecentRequests(BegunTool) < max_requests_per_minute
        THEN /\ Has(BegunTrace, "check_rate_limit:yes")
             /\ Has(BegunTrace, "route")
             /\ BegunTool \in ImplementedTools
                => (Entered /\ Has(BegunTrace, "handler"))
        ELSE /\ ~Entered
             /\ done'.ret = ToolError(RateLimitMsg(BegunTool))
             /\ ~Has(BegunTrace, "route") /\ ~Has(BegunTrace, "handler")
             /\ requests' = requests]_vars

\* C12 witness: max_requests_per_minute calls of file_read were admitted
\* within one second, and the next call within that second was refused by
\* the rate limiter without a handler invocation.
C12_Witness ==
  /\ now <= 1
  /\ RecentRequests(FILE_READ) = max_requests_per_minute
  /\ ncalls = max_requests_per_minute + 1
  /\ done.ret = ToolError(RateLimitMsg(FILE_READ))
  /\ ~Has(done.trace, "handler")
  /\ Len(errors) = 1

\* C13 (as claimed): every call of handle_call_tool has put one entry in the
\* request log, and did so before the allow-list test: the log holds as many
\* entries as calls were made, and record_request is the first thing in the
\* trace of every call, in flight or returned.
C13_RequestRecordedFirst ==
  /\ Len(requests) = ncalls
  /\ done.trace # <<>> => done.trace[1] = "record_request"
  /\ \A c \in Slots :
       hc_pc[c] = "executing" => hc_trace[c][1] = "record_request"

\* -------------------------------------------------------- allow-list claims
\* C14 (as claimed): whatever allow-list the SecurityManager is configured
\* with, the empty one included, is_tool_allowed(n) answers whether n is in
\* that configured list.
C14_AllowedIffConfigured ==
  al_last.name # NoKey => (al_last.result = (al_last.name \in configured))

\* C14 (amended): with a non-empty configured allow-list is_tool_allowed(n)
\* answers whether n is in it; with an empty one it answers whether n is one
\* of the built-in default names.
C14_AllowedIffConfiguredOrDefault ==
  al_last.name # NoKey
  => /\ configured # {} => (al_last.result = (al_last.name \in configured))
     /\ configured = {} => (al_last.result = (al_last.name \in allowed_tools))

\* C14 witness: configured with the one name nonexistent_tool, the
\* SecurityManager answers false for the default name file_read.
C14_Witness ==
  /\ configured = {NONEXISTENT_TOOL}
  /\ al_last = [name |-> FILE_READ, result |-> FALSE]

\* ------------------------------------------- stdio loop claims, continued
\* C15: a line is read only when every non-empty line read before it has its
\* response on stdout; at most one line is without a response at any time;
\* and stdout grows one response at a time, each the response to the line
\* in hand, so the responses stand in the order the lines were read.
C15_ResponseBeforeNextRead ==
  [][/\ nlines' = nlines + 1 => Len(output) = Len(inbox)
     /\ Len(inbox') - Len(output') \in {0, 1}
     /\ output' # output
        => /\ conn_pc = "handling"
           /\ line = inbox[Len(inbox)]
           /\ Len(output') = Len(inbox)
           /\ SubSeq(output', 1, Len(output)) = output]_vars

\* C15 witness: two requests with different ids have been answered in the
\* order they were read, and a third line is in hand.
C15_Witness ==
  /\ Len(output) = 2
  /\ Len(inbox) = 3
  /\ conn_pc = "handling"
  /\ inbox[1].kind = "object" /\ inbox[2].kind = "object"
  /\ inbox[1].id = "abc123" /\ inbox[2].id = "r2"
  /\ output[1].id = "abc123" /\ output[2].id = "r2"

\* C16: every response printed has a result member or an error member, and
\* never both: an error response has no result member at all.
C16_ResultXorError ==
  \A i \in 1..Len(output) :
    /\ IsResult(output[i]) \/ IsError(output[i])
    /\ ~(IsResult(output[i]) /\ IsError(output[i]))

\* C16 witness: stdout holds a result response, the error response of a
\* failed tools/call and the error response of an undecodable line.
C16_Witness ==
  /\ Len(output) = 3
  /\ \E i \in 1..3 : IsResult(output[i])
  /\ \E i \in 1..3 : IsToolsCall(inbox[i]) /\ IsError(output[i])
  /\ \E i \in 1..3 : inbox[i].kind = "undecodable" /\ IsError(output[i])

\* ------------------------------------------- dispatcher claims, continued
\* A call of handle_call_tool returns from its tool body in this step.
EndStep == \E c \in Slots : hc_pc[c] = "executing" /\ hc_pc'[c] = "idle"

\* The ErrorEvent of the call that returned last, as record_error builds it.
ErrorEventOf(d, error_message) ==
  [type |-> CALL_TOOL, tool |-> d.tool, error |-> error_message,
   execution_time |-> d.at - d.start, timestamp |-> d.at]

\* C17: when a tool body raises, handle_call_tool appends one ErrorEvent
\* holding the exception's message and the time elapsed since the call
\* began, records no success sample, and returns (it does not raise) an
\* error result whose text is that same message.
C17_HandlerErrorRecordedAndReturned ==
  [][(EndStep /\ done'.outcome = "raises")
     => /\ errors' = Append(errors, ErrorEventOf(done', HandlerErrorMsg(done'.tool)))
        /\ response_times' = response_times
        /\ done'.ret = ToolError(HandlerErrorMsg(done'.tool))
        /\ done'.ret.isError]_vars

\* C17 witness: system_command raised one second after its call began; the
\* ErrorEvent holds the message and the duration 1.
C17_Witness ==
  /\ done.tool = SYSTEM_COMMAND
  /\ done.outcome = "raises"
  /\ done.at - done.start = 1
  /\ Len(errors) >= 1
  /\ errors[Len(errors)].error = HandlerErrorMsg(SYSTEM_COMMAND)
  /\ errors[Len(errors)].execution_time = 1
  /\ done.ret.isError

\* The samples response_times holds for tool_name.
Samples(times, tool_name) ==
  IF tool_name \in DOMAIN times THEN times[tool_name] ELSE <<>>

\* C18 (as claimed): when a tool body returns a result, handle_call_tool
\* returns a success result (isError not set), appends exactly one success
\* sample, the elapsed time, to that tool's response times, and records no
\* ErrorEvent.
C18_ResultWrappedOneSuccess ==
  [][(EndStep /\ HandlerReturned(done'.outcome))
     => /\ ~done'.ret.isError
        /\ Samples(response_times', done'.tool)
             = Append(Samples(response_times, done'.tool), done'.at - done'.start)
        /\ errors' = errors]_vars

\* The names that carry a routed prefix and have no handler branch.
PrefixedUnregistered ==
  {t \in ToolNames : PrefixOf(t) \in RoutedPrefixes /\ t \notin ImplementedTools}

\* C19 (as claimed): a call naming a tool with a routed prefix and no
\* handler branch returns the Unknown tool (not found) error, and no tool
\* body runs for it.
C19_PrefixedUnknownNotFound ==
  /\ done.tool \in PrefixedUnregistered
     => /\ done.ret = ToolError(UnknownToolMsg(done.tool))
        /\ ~Has(done.trace, "handler")
  /\ \A c \in Slots : hc_pc[c] = "executing" => hc_tool[c] \notin PrefixedUnregistered

\* C19 (amended): such a call returns an error result and no tool body runs
\* for it: the not-allowed error when the name is not on the allow-list;
\* when it is, the rate-limit error or, once admitted and routed by its
\* prefix, the Unknown tool error of the handler.
C19_PrefixedUnknownNeverExecuted ==
  /\ done.tool \in PrefixedUnregistered
     => /\ done.ret.isError
        /\ ~Has(done.trace, "handler")
        /\ ~is_tool_allowed(done.tool)
           => done.ret = ToolError(NotAllowedMsg(done.tool))
        /\ is_tool_allowed(done.tool)
           => done.ret \in {ToolError(RateLimitMsg(done.tool)),
                            ToolError(UnknownToolMsg(done.tool))}
        /\ Has(done.trace, "route")
           => done.ret = ToolError(UnknownToolMsg(done.tool))
  /\ \A c \in Slots : hc_pc[c] = "executing" => hc_tool[c] \notin PrefixedUnregistered

\* C19 witness: git_frobnicate was refused by the allow-list, and git_pull,
\* which is on it, was routed to its handler and returned Unknown tool.
C19_Witness ==
  /\ done.tool = GIT_PULL
  /\ done.ret = ToolError(UnknownToolMsg(GIT_PULL))
  /\ Has(done.trace, "route") /\ ~Has(done.trace, "handler")
  /\ \E i \in 1..Len(errors) :
       /\ errors[i].tool = GIT_FROBNICATE
       /\ errors[i].error = NotAllowedMsg(GIT_FROBNICATE)

\* C20 (as claimed): when the command of a system_command call times out,
\* handle_call_tool appends one ErrorEvent and no success sample, and
\* returns an error result that is not the one of a tool-internal error.
C20_TimeoutIsFailure ==
  [][(EndStep /\ done'.tool = SYSTEM_COMMAND /\ done'.outcome = "timeout")
     => /\ Len(errors') = Len(errors) + 1
        /\ response_times' = response_times
        /\ done'.ret.isError
        /\ done'.ret # ToolError(HandlerErrorMsg(SYSTEM_COMMAND))]_vars

\* C21 (as claimed): when a system_command call whose command timed out
\* has returned, its child process is not running.
C21_TimedOutChildTerminated ==
  (done.tool = SYSTEM_COMMAND /\ done.outcome = "timeout")
  => done.child # "running"

\* How many events of trace tr are in the set es.
Count(tr, es) == Cardinality({i \in 1..Len(tr) : tr[i] \in es})

\* In trace tr the rate limiter is asked at most once, the call is routed at
\* most once, a tool body is entered at most once, and at most one
\* ErrorEvent is recorded.
AtMostOnce(tr) ==
  /\ Count(tr, {"check_rate_limit:yes", "check_rate_limit:no"}) <= 1
  /\ Count(tr, {"route"}) <= 1
  /\ Count(tr, {"handler"}) <= 1
  /\ Count(tr, {"record_error"}) <= 1

\* C22: a call of handle_call_tool asks the rate limiter at most once (and
\* so adds at most one stamp to the window), enters a tool body at most
\* once, and when it is refused or fails records one ErrorEvent and returns
\* one error result.
C22_NoRetry ==
  [][/\ BeginStep
        => /\ AtMostOnce(BegunTrace)
           /\ Len(Window(rate_limits', BegunTool))
                <= Len(Evict(Window(rate_limits, BegunTool), now - WindowSecs)) + 1
           /\ Len(errors') = Len(errors) + (IF Entered THEN 0 ELSE 1)
           /\ ~Entered => (done'.ret.isError
                           /\ Count(done'.trace, {"record_error"}) = 1)
     /\ EndStep
        => /\ AtMostOnce(done'.trace)
           /\ rate_limits' = rate_limits
           /\ Len(errors') = Len(errors) + (IF done'.ret.isError THEN 1 ELSE 0)
           /\ Count(done'.trace, {"record_error"})
                = (IF done'.ret.isError THEN 1 ELSE 0)]_vars

\* C22 witness: a call of file_read was refused by the rate limiter and,
\* after it, a call of file_read failed in its handler; each left one
\* ErrorEvent.
C22_Witness ==
  /\ done.tool = FILE_READ /\ done.outcome = "raises"
  /\ Count(done.trace, {"handler"}) = 1
  /\ Len(errors) = 2
  /\ errors[1].error = RateLimitMsg(FILE_READ)
  /\ errors[2].error = HandlerErrorMsg(FILE_READ)

\* ------------------------------------------- stdio loop claims, continued
\* A request object whose method is none of the three main handles.
HasUnknownMethod(l) ==
  l.kind = "object" /\ l.method \notin {"initialize", "tools/list", "tools/call"}

\* C23: the response to a request with an unknown method is the error of
\* code -32601 with the message "Method not found: <method>" and the id of
\* the request, with no result member; and answering it changes neither the
\* rate limiter, nor the metrics, nor any call of handle_call_tool.
C23_UnknownMethodNotFound ==
  [][/\ \A i \in 1..Len(output') :
          HasUnknownMethod(inbox'[i])
          => /\ IsError(output'[i]) /\ ~IsResult(output'[i])
             /\ output'[i].id = inbox'[i].id
             /\ output'[i].error
                  = [code |-> MethodNotFound,
                     message |-> <<"Method not found", inbox'[i].method>>]
     /\ (conn_pc = "handling" /\ HasUnknownMethod(line))
        => /\ Len(output') = Len(output) + 1
           /\ UNCHANGED <<rlvars, metricvars, hcvars>>]_vars

\* C23 witness: a resources/list request with id "r2" has its -32601 error.
C23_Witness ==
  \E i \in 1..Len(output) :
    /\ HasUnknownMethod(inbox[i])
    /\ inbox[i].method = "resources/list"
    /\ inbox[i].id = "r2"
    /\ output[i].id = "r2"
    /\ output[i].error.code = MethodNotFound

\* ------------------------------------------------------------------ C24
GotMetrics == m_last.op = "get_metrics"

\* The requests and errors inside the window of a get_metrics(hours) call
\* made at instant t (the buffers change only with the next method call).
WindowedRequests(hours, t) ==
  {i \in 1..Len(requests) : requests[i].timestamp > t - hours * SecondsPerHour}

WindowedErrors(hours, t) ==
  {i \in 1..Len(errors) : errors[i].timestamp > t - hours * SecondsPerHour}

\* C24 as stated: get_metrics reports success rate 0 when the windowed request
\* total is 0 and otherwise exactly (total - errors) / total * 100 (the rate
\* is held in hundredths of a percent).
C24_SuccessRateExact ==
  GotMetrics =>
    LET r == m_last.ret
    IN IF r.total_requests = 0
       THEN r.success_rate = 0
       ELSE r.success_rate * r.total_requests
              = (r.total_requests - r.total_errors) * 10000

\* C24 amended: the totals are the windowed counts; the rate is 0 when the
\* windowed request total is 0 and otherwise (total - errors) / total * 100
\* rounded to two decimal places (within half a hundredth of the quotient).
C24_SuccessRateRounded ==
  GotMetrics =>
    LET r == m_last.ret
        d == r.success_rate * r.total_requests
               - (r.total_requests - r.total_errors) * 10000
    IN /\ r.total_requests = Cardinality(WindowedRequests(r.period_hours, m_last.at))
       /\ r.total_errors = Cardinality(WindowedErrors(r.period_hours, m_last.at))
       /\ IF r.total_requests = 0
          THEN r.success_rate = 0
          ELSE 2 * d <= r.total_requests /\ -2 * d <= r.total_requests

\* Three requests and one error in the window: 66.67 is reported.
C24_Witness ==
  /\ GotMetrics
  /\ m_last.ret.total_requests = 3
  /\ m_last.ret.total_errors = 1
  /\ m_last.ret.success_rate = 6667

\* ------------------------------------------------------------------ C25
\* The last n elements of a sequence, all of it when it is shorter.
LastN(q, n) == IF Len(q) > n THEN SubSeq(q, Len(q) - n + 1, Len(q)) ELSE q

\* C25: after any sequence of record_request and record_error calls the
\* request buffer holds at most 10,000 events and the error buffer at most
\* 1,000, and each buffer is the most recent events recorded, in arrival
\* order (a full buffer loses its oldest event to an append).
C25_BuffersBoundedKeepNewest ==
  /\ Len(requests) <= RequestsMaxLen
  /\ Len(errors) <= ErrorsMaxLen
  /\ requests = LastN(req_log, RequestsMaxLen)
  /\ errors = LastN(err_log, ErrorsMaxLen)

\* Both buffers are full and have evicted; the newest request is one for
\* git_status recorded after the clock moved.
C25_Witness ==
  /\ Len(req_log) > RequestsMaxLen
  /\ Len(err_log) > ErrorsMaxLen
  /\ Len(requests) = RequestsMaxLen
  /\ Len(errors) = ErrorsMaxLen
  /\ requests[RequestsMaxLen].tool = GIT_STATUS
  /\ requests[RequestsMaxLen].timestamp > 0

\* ------------------------------------------------------------------ C26
\* A step that is one call of load_metrics.
LoadStep == nrec' = nrec + 1 /\ m_last'.op = "load_metrics"

\* C26: load_metrics changes only tool_usage and start_time: the request
\* buffer, the error buffer and the latency histories are what they were
\* before the call, so a fresh recorder that loads a saved snapshot does not
\* get the saved recorder's buffers back.
C26_LoadKeepsBuffers ==
  [][LoadStep => /\ requests' = requests
                 /\ errors' = errors
                 /\ response_times' = response_times]_vars

\* A recorder with a request and an error was saved, a fresh recorder loaded
\* the file: tool_usage and start_time are the file's, the buffers are empty
\* although the file counts a request and holds an error.
C26_Witness ==
  /\ m_last.op = "load_metrics"
  /\ metrics_file # <<>>
  /\ metrics_file[1].metrics.total_requests > 0
  /\ metrics_file[1].recent_errors # <<>>
  /\ requests = <<>>
  /\ errors = <<>>
  /\ tool_usage = metrics_file[1].tool_usage
  /\ DOMAIN tool_usage # {}
  /\ start_time = fromisoformat(metrics_file[1].start_time)

\* ------------------------------------------------------------------ C27
\* sub is a piece of text: some characters, then sub, then the rest.
Occurs(sub, text) ==
  \E i \in 1..Len(text) : \E k \in i..Len(text) : SubSeq(text, i, k) = sub

\* The lower-cased, trimmed text holds a blocked substring / matches a
\* danger pattern.
HoldsBlocked(command) ==
  \E blocked \in blocked_commands : Occurs(blocked, strip(lower(command)))

MatchesDanger(command) ==
  \E pattern \in dangerous_patterns : re_search(pattern, strip(lower(command)))

\* A step that is one call of is_command_safe.
SafeStep == ~cs_last.called /\ cs_last'.called

\* C27: is_command_safe(text) returns false exactly when the lower-cased,
\* trimmed text contains one of the blocked substrings or matches one of the
\* danger patterns, and true otherwise; it returns (a boolean) for every
\* text and leaves the manager's state as it was.
C27_UnsafeIffBlockedOrDangerous ==
  [][SafeStep =>
       /\ cs_last'.command = cs_command
       /\ cs_last'.ret \in BOOLEAN
       /\ cs_last'.ret = ~(HoldsBlocked(cs_command) \/ MatchesDanger(cs_command))
       /\ UNCHANGED <<configured, sm_allowed_tools, rate_limits, cs_command>>]_vars

\* A text rejected by a danger pattern alone (">/dev/" has no blocked
\* substring, the blocked one has a space after ">").
C27_Witness ==
  /\ cs_last.called
  /\ cs_last.ret = FALSE
  /\ ~HoldsBlocked(cs_last.command)
  /\ MatchesDanger(cs_last.command)

\* ------------------------------------------------------------------ C28
\* The latency samples the collector retains for a tool.
Retained(tool_name) ==
  IF tool_name \in DOMAIN response_times THEN response_times[tool_name] ELSE <<>>

\* C28: get_tool_performance(tool) returns count 0, avg 0, min 0, max 0 when
\* the tool has no latency samples; otherwise count is the number of retained
\* samples, min and max are the least and the greatest of exactly those
\* samples, avg is their sum over their number and min <= avg <= max.
C28_ToolPerformance ==
  m_last.op = "get_tool_performance" =>
    LET r == m_last.ret
        ts == Retained(r.tool)
        avg == r.avg_response_time
    IN IF ts = <<>>
       THEN /\ r.total_calls = 0
            /\ avg.sum = 0
            /\ r.min_response_time = 0
            /\ r.max_response_time = 0
       ELSE /\ r.total_calls = Len(ts)
            /\ avg.len = Len(ts)
            /\ avg.sum = SeqSum(ts)
            /\ \E i \in 1..Len(ts) : ts[i] = r.min_response_time
            /\ \E i \in 1..Len(ts) : ts[i] = r.max_response_time
            /\ \A i \in 1..Len(ts) :
                  r.min_response_time <= ts[i] /\ ts[i] <= r.max_response_time
            /\ r.min_response_time * avg.len <= avg.sum
            /\ avg.sum <= r.max_response_time * avg.len

\* Samples 3 then 1 for file_read: count 2, min 1, avg 4 / 2, max 3, while
\* git_status has none.
C28_Witness ==
  /\ m_last.op = "get_tool_performance"
  /\ m_last.ret.tool = FILE_READ
  /\ Retained(FILE_READ) = <<3, 1>>
  /\ Retained(GIT_STATUS) = <<>>
  /\ m_last.ret.total_calls = 2
  /\ m_last.ret.min_response_time = 1
  /\ m_last.ret.max_response_time = 3
  /\ m_last.ret.avg_response_time = [sum |-> 4, len |-> 2]

\* ------------------------------------------------------------------ C29
\* The reference operator: of the window w, the timestamps not strictly
\* older than t - 60, in their order.
NotExpired(w, t) == SelectSeq(w, LAMBDA stamp : ~(stamp < t - WindowSecs))

\* The reference operator's answer and window for a check at time t.
ReferenceResult(w, t) == Len(NotExpired(w, t)) < max_requests_per_minute

ReferenceWindow(w, t) ==
  IF ReferenceResult(w, t) THEN NotExpired(w, t) \o <<t>> ELSE NotExpired(w, t)

\* C29: check_rate_limit(key) at time now equals the reference operator: it
\* removes from the key's window every timestamp strictly older than
\* now - 60 (one exactly 60 s old is kept); if the remaining count is below
\* max_requests_per_minute it appends now and returns true, otherwise it
\* returns false.
C29_EqualsReference ==
  last.key # NoKey =>
    /\ last.result = ReferenceResult(last.before, last.at)
    /\ Window(rate_limits, last.key) = ReferenceWindow(last.before, last.at)

\* A check that dropped an expired timestamp, kept the one exactly 60 s old
\* and was admitted.
C29_Witness ==
  /\ last.key # NoKey
  /\ last.result
  /\ \E i \in 1..Len(last.before) : last.before[i] < last.at - WindowSecs
  /\ \E i \in 1..Len(last.before) : last.before[i] = last.at - WindowSecs
  /\ Window(rate_limits, last.key) = <<last.at - WindowSecs, last.at>>

\* ------------------------------------------------------------------ C30
\* Every timestamp of the window of key k lies within [now - 60, now].
WithinWindow(k) ==
  \A i \in 1..Len(Window(rate_limits, k)) :
     /\ now - WindowSecs <= Window(rate_limits, k)[i]
     /\ Window(rate_limits, k)[i] <= now

\* C30 as stated: in every reachable state, between checks too, every
\* timestamp stored in a key's rate window lies within [now - 60, now].
C30_AlwaysWithinWindow == \A k \in DOMAIN rate_limits : WithinWindow(k)

\* C30 amended: no stored timestamp is later than now, and while the clock
\* still shows the instant of the latest check, every timestamp of the
\* checked key's window lies within [now - 60, now]; a timestamp that
\* expires as time advances stays stored until the key is checked again.
C30_WithinWindowAfterCheck ==
  /\ \A k \in DOMAIN rate_limits :
       \A i \in 1..Len(rate_limits[k]) : rate_limits[k][i] <= now
  /\ (last.key # NoKey /\ last.at = now) => WithinWindow(last.key)

\* The latest check found an expired timestamp at the head of the key's
\* window and removed it, while the other key's window still holds one.
C30_Witness ==
  /\ last.key # NoKey
  /\ last.at = now
  /\ last.before # <<>>
  /\ Head(last.before) < now - WindowSecs
  /\ WithinWindow(last.key)
  /\ \E k \in DOMAIN rate_limits : ~WithinWindow(k)

\* ------------------------------------------------------------------ C31
\* C31: after any sequence of record_success calls, each tool's latency
\* history holds at most 1,000 samples and they are the most recent ones
\* given for that tool, in arrival order (the oldest are trimmed first);
\* record_success without a tool name records nothing.
C31_LatencyBoundedKeepNewest ==
  /\ DOMAIN response_times = DOMAIN rt_log
  /\ None \notin DOMAIN response_times
  /\ \A k \in DOMAIN response_times :
       /\ Len(response_times[k]) <= ResponseTimesKeep
       /\ response_times[k] = LastN(rt_log[k], ResponseTimesKeep)

\* Three calls were made: two for file_read (3 s, then any time), which
\* trimmed its history to the newest 1,000 samples, and one without a tool
\* name, which left no trace.
C31_Witness ==
  /\ nrec = 3
  /\ DOMAIN response_times = {FILE_READ}
  /\ Len(rt_log[FILE_READ]) = ResponseTimesKeep + 1
  /\ Len(response_times[FILE_READ]) = ResponseTimesKeep
  /\ rt_log[FILE_READ][ResponseTimesKeep] = 3
  /\ response_times[FILE_READ][ResponseTimesKeep - 1] = 3

\* ------------------------------------------------------------------ C32
\* The record_request calls made for a tool name since the collector was
\* created.
CallsFor(tool_name) ==
  Len(SelectSeq(req_log, LAMBDA event : event.tool = tool_name))

\* C32: record_request always appends one RequestEvent (the newest event of
\* the buffer is the one of the latest call) and counts the call for its
\* tool exactly when a tool name is given: the counter of a tool equals the
\* number of record_request calls made for it since creation, also after
\* the request buffer has evicted old events, and no counter exists for a
\* missing name.
C32_CounterCountsCalls ==
  /\ None \notin DOMAIN tool_usage
  /\ \A k \in MetricTools :
       IF k \in DOMAIN tool_usage
       THEN tool_usage[k] = CallsFor(k)
       ELSE CallsFor(k) = 0
  /\ req_log # <<>> =>
       /\ requests # <<>>
       /\ requests[Len(requests)] = req_log[Len(req_log)]

\* Two more calls for file_read and one without a tool name: the buffer has
\* evicted and file_read's counter exceeds the buffer's capacity.
C32_Witness ==
  /\ Len(requests) = RequestsMaxLen
  /\ Len(req_log) = RequestsMaxLen + 2
  /\ tool_usage[FILE_READ] = RequestsMaxLen + 1
  /\ CallsFor(None) = 1
  /\ DOMAIN tool_usage = {FILE_READ}

\* ------------------------------------------------------------------ C33
\* The windowed events of one tool.
WindowedRequestsOf(k, hours, t) == {i \in WindowedRequests(hours, t) : requests[i].tool = k}

WindowedErrorsOf(k, hours, t) == {i \in WindowedErrors(hours, t) : errors[i].tool = k}

\* C33: get_metrics(window) counts total requests, total errors, per-tool
\* calls and per-tool errors only over events inside the trailing window,
\* while the per-tool mean latency is computed over the entire retained
\* latency history, whatever the window.
C33_WindowedCountsUnwindowedLatency ==
  GotMetrics =>
    LET r == m_last.ret
        h == r.period_hours
        t == m_last.at
    IN /\ r.total_requests = Cardinality(WindowedRequests(h, t))
       /\ r.total_errors = Cardinality(WindowedErrors(h, t))
       /\ \A k \in MetricTools :
            /\ IF WindowedRequestsOf(k, h, t) = {}
               THEN k \notin DOMAIN r.tool_usage
               ELSE r.tool_usage[k] = Cardinality(WindowedRequestsOf(k, h, t))
            /\ IF WindowedErrorsOf(k, h, t) = {}
               THEN k \notin DOMAIN r.error_breakdown
               ELSE r.error_breakdown[k] = Cardinality(WindowedErrorsOf(k, h, t))
            /\ IF Retained(k) = <<>>
               THEN k \notin DOMAIN r.avg_response_times
               ELSE r.avg_response_times[k] =
                      [sum |-> SeqSum(Retained(k)), len |-> Len(Retained(k))]

\* get_metrics(1) an hour after a request and an error of time 0, and
\* right after a second request: one request is counted, no error, and the
\* mean latency of the one sample is reported.
C33_Witness ==
  /\ GotMetrics
  /\ m_last.ret.period_hours = 1
  /\ Len(requests) = 2
  /\ errors # <<>>
  /\ m_last.ret.total_requests = 1
  /\ m_last.ret.total_errors = 0
  /\ m_last.ret.tool_usage = [k \in {GIT_STATUS} |-> 1]
  /\ requests[1].tool = FILE_READ
  /\ DOMAIN m_last.ret.error_breakdown = {}
  /\ m_last.ret.avg_response_times = [k \in {FILE_READ} |-> [sum |-> 3, len |-> 1]]

\* ------------------------------------------------------------------ C34
\* What get_metrics() would report in the current state.
Reported == GetMetrics(requests, errors, response_times, now, DefaultHours)

\* C34 (as claimed): after any sequence of calls of handle_call_tool,
\* admitted, failed, unauthorized or rate-limited, the success rate
\* get_metrics reports lies between 0 and 100 (held in hundredths of a
\* percent): the windowed errors never outnumber the windowed requests.
C34_SuccessRateInRange ==
  /\ 0 <= Reported.success_rate
  /\ Reported.success_rate <= 10000

\* ------------------------------------------------------------------ C35
\* C35 (as claimed): every call handled by handle_call_tool records exactly
\* one outcome, one success sample or one ErrorEvent, never both and never
\* neither.
C35_ExactlyOneOutcome ==
  done.trace # <<>> =>
    Count(done.trace, {"record_success"}) + Count(done.trace, {"record_error"}) = 1

\* ------------------------------------------------------------------ C36
\* The call that begins in this step is refused by the allow-list.
UnauthorizedStep == BeginStep /\ ~is_tool_allowed(BegunTool)

\* C36: a call rejected by the allow-list leaves every rate window as it
\* was: it consumes no rate-limit slot and creates no window entry for its
\* name, so only allow-listed names ever have a window.
C36_UnauthorizedLeavesWindows ==
  [][/\ UnauthorizedStep => rate_limits' = rate_limits
     /\ DOMAIN rate_limits' \subseteq sm_allowed_tools]_vars

\* nonexistent_tool was refused by the allow-list after file_read had used
\* up its window: file_read's window is full and untouched, and there is no
\* window for the refused name.
C36_Witness ==
  /\ done.tool = NONEXISTENT_TOOL
  /\ done.ret = ToolError(NotAllowedMsg(NONEXISTENT_TOOL))
  /\ NONEXISTENT_TOOL \notin DOMAIN rate_limits
  /\ FILE_READ \in DOMAIN rate_limits
  /\ Len(rate_limits[FILE_READ]) = max_requests_per_minute

\* C37 (as claimed): the names tools/list advertises, the default allow-list
\* and the names with a handler branch are one set: a finished call of an
\* advertised name was not refused by the allow-list, and a finished call
\* of an allow-listed name that passed the rate limiter ran a tool body.
C37_AdvertisedAllowedImplemented ==
  /\ get_tools = sm_allowed_tools
  /\ sm_allowed_tools = ImplementedTools
  /\ done.tool \in get_tools => done.ret # ToolError(NotAllowedMsg(done.tool))
  /\ (is_tool_allowed(done.tool) /\ Has(done.trace, "check_rate_limit:yes"))
       => Has(done.trace, "handler")

\* create_subprocess_shell(command) ran in the call that finished last: the
\* call has a child process.
ShellRan == done.tool = SYSTEM_COMMAND /\ done.child # "none"

\* C38 (as claimed): when a system_command call has run its command in a
\* shell, is_command_safe was called before with that command text and
\* returned true; a command is_command_safe classifies unsafe is never run.
C38_ExecutedOnlyIfCheckedSafe ==
  ShellRan
    => /\ cs_last.called
       /\ cs_last.command = cs_command
       /\ cs_last.ret
       /\ is_command_safe(cs_command)

\* C39 (as claimed): the dispatcher enforces the configured values: a call
\* of an allowed tool is admitted when fewer than
\* Config.security.rate_limit_per_minute calls of that tool were admitted in
\* the last minute and refused by the rate limiter otherwise, and the
\* allow-list in force is Config.security.allowed_tools.
C39_EnforcesConfiguredLimit ==
  [][/\ sm_allowed_tools = security_allowed_tools
     /\ (BeginStep /\ is_tool_allowed(BegunTool))
          => IF RecentRequests(BegunTool) < rate_limit_per_minute
             THEN Has(BegunTrace, "check_rate_limit:yes")
             ELSE done'.ret = ToolError(RateLimitMsg(BegunTool))]_vars

\* load_metrics fails on this file: open, json.load or fromisoformat raises.
LoadFails(file) ==
  \/ ~Readable(file)
  \/ ~ValidJSON(file)
  \/ ~ValidIso(file[1].start_time)

\* C40 (as claimed): a load_metrics call that fails leaves tool_usage and
\* start_time as they were; a call that does not fail updates both from the
\* file.
C40_FailedLoadChangesNothing ==
  [][LoadStep
     => IF LoadFails(metrics_file)
        THEN tool_usage' = tool_usage /\ start_time' = start_time
        ELSE /\ tool_usage' = LoadedUsage(tool_usage, metrics_file[1])
             /\ start_time' = fromisoformat(metrics_file[1].start_time)]_vars

====
